---- MODULE Spec2Model ----
(***************************************************************************)
(* Model of the cryptonium password hashing library: the SHA-256 digest    *)
(* engine (src/algorithms/sha256.ts), the credential codec                 *)
(* (utils/validation.ts), the salt provider (src/utils/salt.ts), the       *)
(* comparator (utils/timing.ts) and the hashing / verification services    *)
(* (src/core/password.ts).                                                 *)
(*                                                                         *)
(* A JavaScript string is a sequence of UTF-16 code units (naturals).      *)
(* A JavaScript integer Number n is a record [hi, lo] with                 *)
(* n = hi * 2^16 + lo and lo in 0..65535, so that 32-bit words, signed     *)
(* results of bitwise operators and unmasked sums are all representable.   *)
(***************************************************************************)
EXTENDS Integers, Sequences, FiniteSets, TLC

(***************************************************************************)
(* JavaScript numbers and bitwise operators                                *)
(***************************************************************************)
W16 == 256 * 256

RECURSIVE pow2(_)
pow2(n) == IF n = 0 THEN 1 ELSE 2 * pow2(n - 1)
Pow2Table == [n \in 0..16 |-> pow2(n)]
Pow2(n) == Pow2Table[n]

N(hi, lo) == [hi |-> hi, lo |-> lo]
FromInt(i) == N(i \div W16, i % W16)

\* A Number that is an integer, as its two 16-bit halves: the value is
\* hi * 2^16 + lo.  The arithmetic below is defined on Word as functions, so
\* that an operand is a value before the operation is applied to it.
Word == [hi : Int, lo : 0..(W16 - 1)]

\* ToUint32 (x >>> 0) and ToInt32 (the result type of ^ & | ~ <<)
ToUint32[x \in Word] == N(x.hi % W16, x.lo)
ToInt32[x \in Word] == LET h == x.hi % W16 IN N(IF h >= 32768 THEN h - W16 ELSE h, x.lo)

Plus[x \in Word, y \in Word] == LET l == x.lo + y.lo IN N(x.hi + y.hi + (l \div W16), l % W16)

RECURSIVE bitXor(_, _)
bitXor(a, b) ==
    IF a = 0 THEN b ELSE IF b = 0 THEN a
    ELSE ((a + b) % 2) + 2 * bitXor(a \div 2, b \div 2)
RECURSIVE bitAnd(_, _)
bitAnd(a, b) ==
    IF a = 0 \/ b = 0 THEN 0
    ELSE ((a % 2) * (b % 2)) + 2 * bitAnd(a \div 2, b \div 2)
bitOr(a, b) == a + b - bitAnd(a, b)

XorByte == [a \in 0..255 |-> [b \in 0..255 |-> bitXor(a, b)]]
AndByte == [a \in 0..255 |-> [b \in 0..255 |-> bitAnd(a, b)]]
Xor16(a, b) == 256 * XorByte[a \div 256][b \div 256] + XorByte[a % 256][b % 256]
And16(a, b) == 256 * AndByte[a \div 256][b \div 256] + AndByte[a % 256][b % 256]

\* x ^ y, x & y, x | y, ~x on Numbers: operands are taken modulo 2^32 and
\* the result is a signed 32-bit integer.
JsXor[x \in Word, y \in Word] == ToInt32[N(Xor16(x.hi % W16, y.hi % W16), Xor16(x.lo, y.lo))]
JsAnd[x \in Word, y \in Word] == ToInt32[N(And16(x.hi % W16, y.hi % W16), And16(x.lo, y.lo))]
JsOr[x \in Word, y \in Word] ==
    LET xh == x.hi % W16
        yh == y.hi % W16
    IN ToInt32[N(xh + yh - And16(xh, yh), x.lo + y.lo - And16(x.lo, y.lo))]
JsNot[x \in Word] == ToInt32[N(65535 - (x.hi % W16), 65535 - x.lo)]

\* x >>> n and x << n for 0 < n < 32
Ushr[x \in Word, n \in 1..31] ==
    LET h == x.hi % W16 IN
    IF n >= 16 THEN N(0, h \div Pow2(n - 16))
    ELSE N(h \div Pow2(n), (x.lo \div Pow2(n)) + (h % Pow2(n)) * Pow2(16 - n))
Shl[x \in Word, n \in 1..31] ==
    LET h == x.hi % W16 IN
    IF n >= 16 THEN ToInt32[N((x.lo % Pow2(32 - n)) * Pow2(n - 16), 0)]
    ELSE ToInt32[N((h % Pow2(16 - n)) * Pow2(n) + (x.lo \div Pow2(16 - n)),
                   (x.lo % Pow2(16 - n)) * Pow2(n))]

(***************************************************************************)
(* src/algorithms/sha256.ts                                                *)
(***************************************************************************)
\* ((x >>> n) | (x << (32 - n))) >>> 0: the two shifted parts have no bit in
\* common, so the | is a sum of the halves' parts.
rightRotate[x \in Word, n \in 1..31] ==
    LET h == x.hi % W16
        m == IF n >= 16 THEN n - 16 ELSE n
        p == Pow2(m)
        q == Pow2(16 - m)
        a == (h \div p) + (x.lo % p) * q
        b == (x.lo \div p) + (h % p) * q
    IN IF n >= 16 THEN N(b, a) ELSE N(a, b)
rightShift[x \in Word, n \in 1..31] == Ushr[x, n]

K == <<
  N(17034, 12184), N(28983, 17553), N(46528, 64463), N(59829, 56229),
  N(14678, 49755), N(23025, 4593),  N(37439, 33444), N(43804, 24277),
  N(55303, 43672), N(4739, 23297),  N(9265, 34238),  N(21772, 32195),
  N(29374, 23924), N(32990, 45566), N(39900, 1703),  N(49563, 61812),
  N(58523, 27073), N(61374, 18310), N(4033, 40390),  N(9228, 41420),
  N(11753, 11375), N(19060, 33962), N(23728, 43484), N(30457, 35034),
  N(38974, 20818), N(43057, 50797), N(45059, 10184), N(48985, 32711),
  N(50912, 3059),  N(54695, 37191), N(1738, 25425),  N(5161, 10599),
  N(10167, 2693),  N(11803, 8504),  N(19756, 28156), N(21304, 3347),
  N(25866, 29524), N(30314, 2747),  N(33218, 51502), N(37490, 11397),
  N(41663, 59553), N(43034, 26187), N(49739, 35696), N(51052, 20899),
  N(53650, 59417), N(54937, 1572),  N(62478, 13701), N(4202, 41072),
  N(6564, 49430),  N(7735, 27656),  N(10056, 30540), N(13488, 48309),
  N(14620, 3251),  N(20184, 43594), N(23452, 51791), N(26670, 28659),
  N(29839, 33518), N(30885, 25455), N(33992, 30740), N(36039, 520),
  N(37054, 65530), N(42064, 27883), N(48889, 41975), N(50801, 30962) >>

H0 == << N(27145, 58983), N(47975, 44677), N(15470, 62322), N(42319, 62778),
         N(20750, 21119), N(39685, 26764), N(8067, 55723),  N(23520, 52505) >>

\* Concatenation of the sequences f[lo], ..., f[hi], by halving (the depth of
\* the evaluation stays logarithmic in the length of a string).
RECURSIVE flatRange(_, _, _)
flatRange(f, lo, hi) ==
    IF lo > hi THEN << >>
    ELSE IF lo = hi THEN f[lo]
    ELSE LET mid == (lo + hi) \div 2
         IN flatRange(f, lo, mid) \o flatRange(f, mid + 1, hi)
flatten(f) == flatRange(f, 1, Len(f))

\* stringToBytes: the UTF-8 encoder of sha256.ts.  The loop reads str[i]; a
\* code unit in 0xD800..0xDFFF takes the last branch, which does i++ and so
\* consumes str[i + 1] whatever it is (charCodeAt past the end is NaN, and
\* NaN & 0x3ff is 0).  isLead(str, i): the loop reads position i as the first
\* unit of that branch; a position right after such a unit is never read.
isSurrogate(char) == char >= 55296 /\ char < 57344
RECURSIVE isLead(_, _)
isLead(str, i) == isSurrogate(str[i]) /\ ~(i > 1 /\ isLead(str, i - 1))
charBytes(str, i) ==
    LET char == str[i] IN
    IF i > 1 /\ isLead(str, i - 1) THEN << >>
    ELSE IF char < 128 THEN << char >>
    ELSE IF char < 2048 THEN
        << bitOr(192, char \div 64), bitOr(128, bitAnd(char, 63)) >>
    ELSE IF char < 55296 \/ char >= 57344 THEN
        << bitOr(224, char \div 4096),
           bitOr(128, bitAnd(char \div 64, 63)),
           bitOr(128, bitAnd(char, 63)) >>
    ELSE
        LET char2 == IF i + 1 <= Len(str) THEN str[i + 1] ELSE 0
            codePoint == 65536 + bitOr(bitAnd(char, 1023) * 1024, bitAnd(char2, 1023))
        IN << bitOr(240, codePoint \div 262144),
              bitOr(128, bitAnd(codePoint \div 4096, 63)),
              bitOr(128, bitAnd(codePoint \div 64, 63)),
              bitOr(128, bitAnd(codePoint, 63)) >>
stringToBytes(str) == flatten([i \in 1..Len(str) |-> charBytes(str, i)])

\* One word of stringToWords: word = (word << 8) + byte over up to 4 bytes,
\* starting at byte index i (1-based), then word >>> 0.
RECURSIVE packWord(_, _, _, _)
packWord(bytes, i, j, word) ==
    IF j < 4 /\ i + j <= Len(bytes)
    THEN packWord(bytes, i, j + 1, Plus[Shl[word, 8], FromInt(bytes[i + j])])
    ELSE ToUint32[word]
\* the loop of stringToWords from byte index i on: one word for every 4 bytes
wordsFrom(bytes, i, words) ==
    words \o [k \in 1..((Len(bytes) - i + 4) \div 4) |->
                packWord(bytes, i + 4 * (k - 1), 0, N(0, 0))]
stringToWords(str) == wordsFrom(stringToBytes(str), 1, << >>)

\* Pre-processing of sha256: the padded word list
\* while (words.length % 16 !== 14) words.push(0)
zeroPad(msgWords) == msgWords \o [k \in 1..((14 - Len(msgWords)) % 16) |-> N(0, 0)]
paddedWords(message) ==
    LET bitLength == Len(message) * 8
    IN zeroPad(Append(stringToWords(message), N(32768, 0)))
         \o << FromInt((bitLength \div W16) \div W16), ToUint32[FromInt(bitLength)] >>

\* Message schedule: one pass of the loop, w[t] for t = Len(w) (sequence
\* index t + 1)
nextWord(w) ==
    LET t == Len(w)
        w15 == w[t - 14]
        w2 == w[t - 1]
        w16 == w[t - 15]
        w7 == w[t - 6]
        s0 == JsXor[JsXor[rightRotate[w15, 7], rightRotate[w15, 18]], rightShift[w15, 3]]
        s1 == JsXor[JsXor[rightRotate[w2, 17], rightRotate[w2, 19]], rightShift[w2, 10]]
    IN Append(w, ToUint32[Plus[Plus[Plus[w16, s0], w7], s1]])
\* `left` passes of the loop, the first half of them and then the rest
RECURSIVE scheduleSteps(_, _)
scheduleSteps(w, left) ==
    IF left <= 0 THEN w
    ELSE IF left = 1 THEN nextWord(w)
    ELSE LET half == scheduleSteps(w, left \div 2)
         IN IF Len(half) = 0 THEN half
            ELSE scheduleSteps(half, left - left \div 2)
\* for (let t = 16; t < 64; t++)
schedule(w) == scheduleSteps(w, 64 - Len(w))

\* Fault variant of round: a = temp1 + temp2 and e = d + temp1 without >>> 0
roundUnreduced(r, w, t) ==
    LET S1 == JsXor[JsXor[rightRotate[r[5], 6], rightRotate[r[5], 11]], rightRotate[r[5], 25]]
        ch == JsXor[JsAnd[r[5], r[6]], JsAnd[JsNot[r[5]], r[7]]]
        temp1 == ToUint32[Plus[Plus[Plus[Plus[r[8], S1], ch], K[t + 1]], w[t + 1]]]
        S0 == JsXor[JsXor[rightRotate[r[1], 2], rightRotate[r[1], 13]], rightRotate[r[1], 22]]
        maj == JsXor[JsXor[JsAnd[r[1], r[2]], JsAnd[r[1], r[3]]], JsAnd[r[2], r[3]]]
        temp2 == ToUint32[Plus[S0, maj]]
    IN << Plus[temp1, temp2], r[1], r[2], r[3], Plus[r[4], temp1], r[5], r[6], r[7] >>
\* One compression round on the registers r = <<a, b, c, d, e, f, g, h0>>
round(r, w, t) ==
    LET a == r[1]
        b == r[2]
        c == r[3]
        d == r[4]
        e == r[5]
        f == r[6]
        g == r[7]
        h0 == r[8]
        S1 == JsXor[JsXor[rightRotate[e, 6], rightRotate[e, 11]], rightRotate[e, 25]]
        ch == JsXor[JsAnd[e, f], JsAnd[JsNot[e], g]]
        temp1 == ToUint32[Plus[Plus[Plus[Plus[h0, S1], ch], K[t + 1]], w[t + 1]]]
        S0 == JsXor[JsXor[rightRotate[a, 2], rightRotate[a, 13]], rightRotate[a, 22]]
        maj == JsXor[JsXor[JsAnd[a, b], JsAnd[a, c]], JsAnd[b, c]]
        temp2 == ToUint32[Plus[S0, maj]]
    IN << ToUint32[Plus[temp1, temp2]], a, b, c, ToUint32[Plus[d, temp1]], e, f, g >>
\* `left` rounds from round t on, the first half of them and then the rest
RECURSIVE roundsFrom(_, _, _, _)
roundsFrom(r, w, t, left) ==
    IF left <= 0 \/ Len(r) # 8 THEN r
    ELSE IF left = 1 THEN round(r, w, t)
    ELSE LET half == roundsFrom(r, w, t, left \div 2)
         IN IF Len(half) # 8 THEN half
            ELSE roundsFrom(half, w, t + left \div 2, left - left \div 2)
\* for (let t = 0; t < 64; t++)
rounds(r, w, t) == roundsFrom(r, w, t, 64 - t)

\* Fault variant of addState: the sums are not reduced to 32 bits
addStateUnreduced(h, r) == [k \in 1..8 |-> Plus[h[k], r[k]]]
\* h[k] = (h[k] + register) >>> 0 after a block
addState(h, r) == [k \in 1..8 |-> ToUint32[Plus[h[k], r[k]]]]

\* The body of the chunk loop for the 16 words from index i on; the schedule
\* is complete before the rounds start
chunk(msgWords, i, h) ==
    LET w == schedule(SubSeq(msgWords, i, i + 15))
    IN IF Len(w) # 64 THEN h ELSE addState(h, rounds(h, w, 0))
\* `left` chunks from index i on, the first half of them and then the rest
RECURSIVE chunksFrom(_, _, _, _)
chunksFrom(msgWords, i, h, left) ==
    IF left <= 0 \/ Len(h) # 8 THEN h
    ELSE IF left = 1 THEN chunk(msgWords, i, h)
    ELSE LET half == chunksFrom(msgWords, i, h, left \div 2)
         IN IF Len(half) # 8 THEN half
            ELSE chunksFrom(msgWords, i + 16 * (left \div 2), half, left - left \div 2)
\* for (let i = 0; i < words.length; i += 16)
chunks(msgWords, i, h) == chunksFrom(msgWords, i, h, (Len(msgWords) - i + 16) \div 16)
sha256Words(message) == chunks(paddedWords(message), 1, H0)

\* x.toString(16) for a non-negative integer, as code units
hexDigit(d) == IF d < 10 THEN 48 + d ELSE 87 + d
RECURSIVE hexOfNat(_)
hexOfNat(n) == IF n < 16 THEN << hexDigit(n) >> ELSE Append(hexOfNat(n \div 16), hexDigit(n % 16))
hex4(n) == << hexDigit(n \div 4096), hexDigit((n \div 256) % 16),
              hexDigit((n \div 16) % 16), hexDigit(n % 16) >>
toString16(x) ==
    IF x.hi = 0 THEN hexOfNat(x.lo)
    ELSE IF x.hi > 0 THEN hexOfNat(x.hi) \o hex4(x.lo)
    ELSE << 45 >> \o (IF x.lo = 0 THEN hexOfNat(-x.hi) \o hex4(0)
                      ELSE IF x.hi = -1 THEN hexOfNat(W16 - x.lo)
                      ELSE hexOfNat(-x.hi - 1) \o hex4(W16 - x.lo))
RECURSIVE padStart(_, _, _)
padStart(s, n, c) == IF Len(s) >= n THEN s ELSE padStart(<< c >> \o s, n, c)

sha256(message) ==
    LET h == sha256Words(message)
    IN flatten([k \in 1..8 |-> padStart(toString16(h[k]), 8, 48)])

\* sha256Bytes: parseInt of each pair of hex digits
hexVal(c) == IF c >= 97 THEN c - 87 ELSE IF c >= 65 THEN c - 55 ELSE c - 48
sha256Bytes(message) ==
    LET hexHash == sha256(message)
    IN [k \in 1..(Len(hexHash) \div 2) |->
          16 * hexVal(hexHash[2 * k - 1]) + hexVal(hexHash[2 * k])]

(***************************************************************************)
(* Strings (code units) used by the library and its callers                *)
(***************************************************************************)
STR_sha256 == << 115, 104, 97, 50, 53, 54 >>               \* "sha256"
STR_sha512 == << 115, 104, 97, 53, 49, 50 >>               \* "sha512"
STR_hex == << 104, 101, 120 >>                             \* "hex"
KEY_algorithm == << 97, 108, 103, 111, 114, 105, 116, 104, 109 >>   \* "algorithm"
KEY_iterations == << 105, 116, 101, 114, 97, 116, 105, 111, 110, 115 >>   \* "iterations"
KEY_keyLength == << 107, 101, 121, 76, 101, 110, 103, 116, 104 >>   \* "keyLength"
KEY_timestamp == << 116, 105, 109, 101, 115, 116, 97, 109, 112 >>   \* "timestamp"
LIT_null == << 110, 117, 108, 108 >>
LIT_true == << 116, 114, 117, 101 >>
LIT_false == << 102, 97, 108, 115, 101 >>

\* A call either returns a value or throws an Error with a message.
Returned(value) == [ok |-> TRUE, value |-> value]
Thrown(message) == [ok |-> FALSE, error |-> message]

(***************************************************************************)
(* JSON values, JSON.stringify and JSON.parse (the engine's, as used by    *)
(* password.ts:52 and validation.ts:123).  Numbers are integers, strings   *)
(* hold no escape sequence and texts hold no white space: the metadata the *)
(* library writes, and the texts the callers of this model supply, are of  *)
(* that shape.  Two more kinds of Number are values: one with one decimal  *)
(* (2.5), and one beyond the range of a double (1e999 is read as           *)
(* Infinity).                                                              *)
(***************************************************************************)
Undefined == [t |-> "undefined"]
JNull == [t |-> "null"]
JNum(n) == [t |-> "num", v |-> n]
\* whole + tenths / 10 with tenths in 1..9 (whole is the floor), and +-Infinity
JFraction(whole, tenths) == [t |-> "fraction", whole |-> whole, tenths |-> tenths]
JInfinity(negative) == [t |-> "infinity", negative |-> negative]
JStr(str) == [t |-> "str", v |-> str]
JBool(b) == [t |-> "bool", v |-> b]
\* An object: its keys in insertion order and the value of each key
JObj(keys, vals) == [t |-> "obj", keys |-> keys, vals |-> vals]

hasKey(value, key) == value.t = "obj" /\ \E k \in 1..Len(value.keys) : value.keys[k] = key
\* value?.key
getKey(value, key) ==
    IF hasKey(value, key)
    THEN value.vals[CHOOSE k \in 1..Len(value.keys) : value.keys[k] = key]
    ELSE Undefined

RECURSIVE decimalOfNat(_)
decimalOfNat(n) ==
    IF n < 10 THEN << 48 + n >> ELSE Append(decimalOfNat(n \div 10), 48 + (n % 10))
numberToString(n) == IF n < 0 THEN << 45 >> \o decimalOfNat(-n) ELSE decimalOfNat(n)
fractionToString(x) ==
    IF x.whole >= 0 THEN decimalOfNat(x.whole) \o << 46, 48 + x.tenths >>
    ELSE << 45 >> \o decimalOfNat(-x.whole - 1) \o << 46, 58 - x.tenths >>

joinWith(parts, sep) ==
    flatten([k \in 1..Len(parts) |-> IF k = 1 THEN parts[k] ELSE << sep >> \o parts[k]])

RECURSIVE JSONstringify(_)
JSONstringify(value) ==
    IF value.t = "num" THEN numberToString(value.v)
    ELSE IF value.t = "fraction" THEN fractionToString(value)
    ELSE IF value.t = "str" THEN << 34 >> \o value.v \o << 34 >>
    ELSE IF value.t = "bool" THEN (IF value.v THEN LIT_true ELSE LIT_false)
    ELSE IF value.t = "obj" THEN
        << 123 >> \o
        joinWith([k \in 1..Len(value.keys) |->
                    << 34 >> \o value.keys[k] \o << 34, 58 >> \o JSONstringify(value.vals[k])],
                 44)
        \o << 125 >>
    ELSE LIT_null

isDigit(c) == c >= 48 /\ c <= 57
startsWith(str, i, lit) ==
    i + Len(lit) - 1 <= Len(str) /\ SubSeq(str, i, i + Len(lit) - 1) = lit
\* The first position j >= i with ~P(str[j]); Len(str) + 1 if there is none
firstNonDigit(str, i) ==
    IF \A j \in i..Len(str) : isDigit(str[j]) THEN Len(str) + 1
    ELSE CHOOSE j \in i..Len(str) :
            ~isDigit(str[j]) /\ \A k \in i..(j - 1) : isDigit(str[k])
firstQuote(str, i) ==
    IF \A j \in i..Len(str) : str[j] # 34 THEN 0
    ELSE CHOOSE j \in i..Len(str) : str[j] = 34 /\ \A k \in i..(j - 1) : str[k] # 34
RECURSIVE natOfDecimal(_)
natOfDecimal(digits) ==
    IF digits = << >> THEN 0
    ELSE 10 * natOfDecimal(SubSeq(digits, 1, Len(digits) - 1)) + (digits[Len(digits)] - 48)

ParseFail == [ok |-> FALSE]
Parsed(value, next) == [ok |-> TRUE, value |-> value, next |-> next]

\* -?digits(.digits)?([eE][+-]?digits)?  The value is read for an integer,
\* for one decimal, and for a non-zero integer with an exponent of 309 or
\* more; a number of another shape is not among the texts of this model.
parseNumber(str, i) ==
    LET neg == str[i] = 45
        d == IF neg THEN i + 1 ELSE i
        e == firstNonDigit(str, d)
        whole == natOfDecimal(SubSeq(str, d, e - 1))
        dot == e <= Len(str) /\ str[e] = 46
        f == IF dot THEN firstNonDigit(str, e + 1) ELSE e
        exp == f <= Len(str) /\ str[f] \in {69, 101}
        signed == exp /\ f + 1 <= Len(str) /\ str[f + 1] \in {43, 45}
        x == IF signed THEN f + 2 ELSE f + 1
        g == IF exp THEN firstNonDigit(str, x) ELSE f
        tenths == str[e + 1] - 48
    IN IF e = d \/ (e > d + 1 /\ str[d] = 48) THEN ParseFail
       ELSE IF dot /\ f = e + 1 THEN ParseFail
       ELSE IF exp /\ g <= x THEN ParseFail
       ELSE IF ~dot /\ ~exp
            THEN Parsed(JNum((IF neg THEN -1 ELSE 1) * whole), e)
       ELSE IF dot /\ ~exp /\ f = e + 2
            THEN Parsed(IF tenths = 0 THEN JNum((IF neg THEN -1 ELSE 1) * whole)
                        ELSE IF neg THEN JFraction(-whole - 1, 10 - tenths)
                        ELSE JFraction(whole, tenths), f)
       ELSE IF /\ exp /\ ~dot /\ whole # 0 /\ str[f + 1] # 45 /\ str[x] # 48
               /\ (g - x > 3 \/ (g - x = 3 /\ natOfDecimal(SubSeq(str, x, g - 1)) >= 309))
            THEN Parsed(JInfinity(neg), g)
       ELSE ParseFail
parseString(str, i) ==
    LET q == firstQuote(str, i + 1)
    IN IF q = 0 \/ (\E k \in (i + 1)..(q - 1) : str[k] = 92 \/ str[k] < 32) THEN ParseFail
       ELSE Parsed(JStr(SubSeq(str, i + 1, q - 1)), q + 1)

RECURSIVE parseValue(_, _)
RECURSIVE parseMembers(_, _, _, _)
\* the members of an object from position i on, after the keys and values read so far
parseMembers(str, i, keys, vals) ==
    IF i > Len(str) \/ str[i] # 34 THEN ParseFail
    ELSE LET key == parseString(str, i) IN
      IF ~key.ok \/ key.next > Len(str) \/ str[key.next] # 58 THEN ParseFail
      ELSE LET val == parseValue(str, key.next + 1) IN
        IF ~val.ok \/ val.next > Len(str) THEN ParseFail
        ELSE LET dup == \E k \in 1..Len(keys) : keys[k] = key.value.v
                 keys2 == IF dup THEN keys ELSE Append(keys, key.value.v)
                 vals2 == IF dup
                          THEN [k \in 1..Len(keys) |->
                                  IF keys[k] = key.value.v THEN val.value ELSE vals[k]]
                          ELSE Append(vals, val.value)
             IN IF str[val.next] = 125 THEN Parsed(JObj(keys2, vals2), val.next + 1)
                ELSE IF str[val.next] = 44 THEN parseMembers(str, val.next + 1, keys2, vals2)
                ELSE ParseFail
parseValue(str, i) ==
    IF i > Len(str) THEN ParseFail
    ELSE IF str[i] = 123 THEN
        (IF i + 1 <= Len(str) /\ str[i + 1] = 125 THEN Parsed(JObj(<< >>, << >>), i + 2)
         ELSE parseMembers(str, i + 1, << >>, << >>))
    ELSE IF str[i] = 34 THEN parseString(str, i)
    ELSE IF str[i] = 45 \/ isDigit(str[i]) THEN parseNumber(str, i)
    ELSE IF startsWith(str, i, LIT_null) THEN Parsed(JNull, i + 4)
    ELSE IF startsWith(str, i, LIT_true) THEN Parsed(JBool(TRUE), i + 4)
    ELSE IF startsWith(str, i, LIT_false) THEN Parsed(JBool(FALSE), i + 5)
    ELSE ParseFail
\* JSON.parse: throws a SyntaxError unless the whole text is one value
JSONparse(text) ==
    LET r == parseValue(text, 1)
    IN IF r.ok /\ r.next = Len(text) + 1 THEN Returned(r.value)
       ELSE Thrown("SyntaxError")

(***************************************************************************)
(* utils/validation.ts.  Arguments are strings and integers, so the typeof *)
(* and Number.isInteger checks always pass.                                *)
(***************************************************************************)
\* Fault variant of validatePassword: a password with a NUL is let through
validatePasswordAllowNul(password) ==
    IF Len(password) = 0 THEN Thrown("Password cannot be empty")
    ELSE IF Len(password) > 1024 THEN Thrown("Password is too long (max 1024 characters)")
    ELSE Returned(TRUE)
validatePassword(password) ==
    IF Len(password) = 0 THEN Thrown("Password cannot be empty")
    ELSE IF Len(password) > 1024 THEN Thrown("Password is too long (max 1024 characters)")
    ELSE IF \E i \in 1..Len(password) : password[i] = 0
         THEN Thrown("Password cannot contain null bytes")
    ELSE Returned(TRUE)

\* Fault variant of validateSalt: the upper limit is 64 whatever maxLength is
validateSaltAtMost64(salt, minLength, maxLength) ==
    IF Len(salt) < minLength
    THEN Thrown("Salt must be at least " \o ToString(minLength) \o " characters long")
    ELSE IF Len(salt) > 64
    THEN Thrown("Salt must be at most " \o ToString(maxLength) \o " characters long")
    ELSE Returned(TRUE)
validateSalt(salt, minLength, maxLength) ==
    IF Len(salt) < minLength
    THEN Thrown("Salt must be at least " \o ToString(minLength) \o " characters long")
    ELSE IF Len(salt) > maxLength
    THEN Thrown("Salt must be at most " \o ToString(maxLength) \o " characters long")
    ELSE Returned(TRUE)

isHexChar(c) == (c >= 48 /\ c <= 57) \/ (c >= 97 /\ c <= 102) \/ (c >= 65 /\ c <= 70)
\* Fault variant of validateHash: the digits A-F are refused
validateHashLowerCase(hash) ==
    IF Len(hash) = 0 THEN Thrown("Hash cannot be empty")
    ELSE IF ~(\A i \in 1..Len(hash) : isHexChar(hash[i]) /\ ~(hash[i] >= 65 /\ hash[i] <= 70))
         THEN Thrown("Hash must contain only hexadecimal characters")
    ELSE Returned(TRUE)
validateHash(hash) ==
    IF Len(hash) = 0 THEN Thrown("Hash cannot be empty")
    ELSE IF ~(\A i \in 1..Len(hash) : isHexChar(hash[i]))
         THEN Thrown("Hash must contain only hexadecimal characters")
    ELSE Returned(TRUE)

validateKeyLength(keyLength) ==
    IF keyLength < 8 THEN Thrown("Key length must be at least 8 bytes")
    ELSE IF keyLength > 512 THEN Thrown("Key length cannot exceed 512 bytes")
    ELSE Returned(TRUE)

\* str.split(sep) for a one-unit separator
sepPositions(str, sep) == {i \in 1..Len(str) : str[i] = sep}
split(str, sep) ==
    LET P == sepPositions(str, sep)
        n == Cardinality(P)
        cut(k) == IF k = 0 THEN 0
                  ELSE IF k = n + 1 THEN Len(str) + 1
                  ELSE CHOOSE i \in P : Cardinality({j \in P : j <= i}) = k
    IN [k \in 1..(n + 1) |-> SubSeq(str, cut(k - 1) + 1, cut(k) - 1)]

\* Fault variant of validateStoredHashFormat: a metadata part that is not
\* JSON is an error
validateStoredHashFormatStrict(storedHash) ==
    LET parts == split(storedHash, 58)
        parsed == JSONparse(joinWith(SubSeq(parts, 3, Len(parts)), 58))
    IN IF Len(parts) < 2
       THEN Thrown("Invalid stored hash format - must contain salt and hash separated by colon")
       ELSE IF parts[1] = << >> \/ parts[2] = << >>
       THEN Thrown("Invalid stored hash format - salt and hash cannot be empty")
       ELSE IF ~validateSalt(parts[1], 8, 128).ok THEN validateSalt(parts[1], 8, 128)
       ELSE IF ~validateHash(parts[2]).ok THEN validateHash(parts[2])
       ELSE IF Len(parts) > 2 /\ ~parsed.ok THEN Thrown("Invalid metadata")
       ELSE Returned([salt |-> parts[1], hash |-> parts[2],
                      metadata |-> IF Len(parts) > 2 THEN parsed.value ELSE Undefined])
validateStoredHashFormat(storedHash) ==
    LET parts == split(storedHash, 58) IN
    IF Len(parts) < 2
    THEN Thrown("Invalid stored hash format - must contain salt and hash separated by colon")
    ELSE LET salt == parts[1]
             hash == parts[2]
             metadataParts == SubSeq(parts, 3, Len(parts))
             parsed == JSONparse(joinWith(metadataParts, 58))
         IN IF salt = << >> \/ hash = << >>
            THEN Thrown("Invalid stored hash format - salt and hash cannot be empty")
            ELSE IF ~validateSalt(salt, 8, 128).ok THEN validateSalt(salt, 8, 128)
            ELSE IF ~validateHash(hash).ok THEN validateHash(hash)
            ELSE Returned([salt |-> salt, hash |-> hash,
                           metadata |-> IF Len(metadataParts) > 0 /\ parsed.ok
                                        THEN parsed.value ELSE Undefined])

(***************************************************************************)
(* utils/timing.ts                                                         *)
(***************************************************************************)
\* Buffer.from(str, 'utf8'): well-formed UTF-8; a surrogate that is not part
\* of a high/low pair becomes U+FFFD (EF BF BD).
isHigh(c) == c >= 55296 /\ c < 56320
isLow(c) == c >= 56320 /\ c < 57344
utf8At(str, i) ==
    LET c == str[i] IN
    IF c < 128 THEN << c >>
    ELSE IF c < 2048 THEN << 192 + (c \div 64), 128 + (c % 64) >>
    ELSE IF isLow(c) /\ i > 1 /\ isHigh(str[i - 1]) THEN << >>
    ELSE IF isHigh(c) /\ i < Len(str) /\ isLow(str[i + 1]) THEN
        LET cp == 65536 + (c - 55296) * 1024 + (str[i + 1] - 56320)
        IN << 240 + (cp \div 262144), 128 + ((cp \div 4096) % 64),
              128 + ((cp \div 64) % 64), 128 + (cp % 64) >>
    ELSE IF isSurrogate(c) THEN << 239, 191, 189 >>
    ELSE << 224 + (c \div 4096), 128 + ((c \div 64) % 64), 128 + (c % 64) >>
bufferFromUtf8(str) == flatten([i \in 1..Len(str) |-> utf8At(str, i)])

\* result |= aByte ^ bByte over i = lo..hi (0-based), by halving: | is
\* associative and commutative
RECURSIVE orOfXors(_, _, _, _)
orOfXors(aBytes, bBytes, lo, hi) ==
    IF lo > hi THEN 0
    ELSE IF lo = hi THEN
        bitXor(IF lo < Len(aBytes) THEN aBytes[lo + 1] ELSE 0,
               IF lo < Len(bBytes) THEN bBytes[lo + 1] ELSE 0)
    ELSE LET mid == (lo + hi) \div 2
         IN bitOr(orOfXors(aBytes, bBytes, lo, mid), orOfXors(aBytes, bBytes, mid + 1, hi))
Max(m, n) == IF m >= n THEN m ELSE n
\* Fault variant of timeSafeCompare: the accumulator starts at 0, not at the
\* XOR of the lengths
timeSafeCompareNoLength(a, b) ==
    orOfXors(bufferFromUtf8(a), bufferFromUtf8(b), 0,
             Max(Len(bufferFromUtf8(a)), Len(bufferFromUtf8(b))) - 1) = 0
timeSafeCompare(a, b) ==
    LET aBytes == bufferFromUtf8(a)
        bBytes == bufferFromUtf8(b)
        maxLength == Max(Len(aBytes), Len(bBytes))
        result == bitOr(bitXor(Len(aBytes), Len(bBytes)),
                        orOfXors(aBytes, bBytes, 0, maxLength - 1))
    IN result = 0

\* Fault variant of loopSteps: the loop stops after the first differing byte
loopStepsEarlyExit(aBytes, bBytes, lo, hi) ==
    LET differing == { i \in lo..hi :
                        (IF i < Len(aBytes) THEN aBytes[i + 1] ELSE 0)
                        # (IF i < Len(bBytes) THEN bBytes[i + 1] ELSE 0) }
    IN IF differing = {} THEN hi - lo + 1
       ELSE (CHOOSE i \in differing : \A j \in differing : i <= j) - lo + 1
\* how many times the loop body runs for i = lo..hi (0-based): the body has
\* no break and no return
RECURSIVE loopSteps(_, _, _, _)
loopSteps(aBytes, bBytes, lo, hi) ==
    IF lo > hi THEN 0
    ELSE IF lo = hi THEN 1
    ELSE LET mid == (lo + hi) \div 2
         IN loopSteps(aBytes, bBytes, lo, mid) + loopSteps(aBytes, bBytes, mid + 1, hi)
timeSafeCompareSteps(a, b) ==
    loopSteps(bufferFromUtf8(a), bufferFromUtf8(b), 0,
              Max(Len(bufferFromUtf8(a)), Len(bufferFromUtf8(b))) - 1)
\* a call of timeSafeCompare: its result and the byte positions it visited
comparison(a, b) ==
    [ok |-> TRUE, value |-> timeSafeCompare(a, b), calls |-> 0,
     steps |-> timeSafeCompareSteps(a, b)]
constantTimeCompare(a, b) ==
    IF Len(a) # Len(b)
    THEN [comparison(a, a) EXCEPT !.value = FALSE]
    ELSE comparison(a, b)

(***************************************************************************)
(* src/utils/salt.ts.  crypto.randomBytes is the entropy source: its       *)
(* output is an input of the model, the byte sequence picked by `entropy`. *)
(***************************************************************************)
randomBytes(length, entropy) == [i \in 1..length |-> (entropy + 89 * i) % 256]
\* Buffer.toString('hex')
toHexString(bytes) ==
    [k \in 1..(2 * Len(bytes)) |->
        IF k % 2 = 1 THEN hexDigit(bytes[(k + 1) \div 2] \div 16)
        ELSE hexDigit(bytes[k \div 2] % 16)]
generateCryptoSalt(length, entropy) ==
    IF ~validateKeyLength(length).ok THEN validateKeyLength(length)
    ELSE Returned(toHexString(randomBytes(length, entropy)))
\* generateSecureSalt(length) with no options: the strategy is 'crypto'
generateSecureSalt(length, entropy) ==
    IF ~validateKeyLength(length).ok THEN validateKeyLength(length)
    ELSE generateCryptoSalt(length, entropy)

(***************************************************************************)
(* src/core/password.ts.  An options object holds a JavaScript value for   *)
(* each property (Undefined when the caller leaves it out).  Date.now() is *)
(* the reading `now` of the clock; entropy is the salt provider's draw.    *)
(* The `calls` field of a result counts the applications of sha256 the     *)
(* call made (an observation of the run, not a value the code returns).    *)
(***************************************************************************)
truthy(value) ==
    IF value.t = "num" THEN value.v # 0
    ELSE IF value.t \in {"fraction", "infinity"} THEN TRUE
    ELSE IF value.t = "str" THEN value.v # << >>
    ELSE IF value.t = "bool" THEN value.v
    ELSE value.t = "obj"
\* value || default
orElse(value, default) == IF truthy(value) THEN value ELSE default

\* i < value for a number i: the value is converted to a number, and a
\* comparison with NaN is false
lessThan(i, value) ==
    IF value.t = "num" THEN i < value.v
    ELSE IF value.t = "fraction" THEN i <= value.whole
    ELSE IF value.t = "infinity" THEN ~value.negative
    ELSE IF value.t = "bool" THEN i < (IF value.v THEN 1 ELSE 0)
    ELSE IF value.t = "str" /\ value.v # << >> /\ \A k \in 1..Len(value.v) : isDigit(value.v[k])
         THEN i < natOfDecimal(value.v)
    ELSE IF value.t = "null" THEN i < 0
    ELSE FALSE

\* for (let i = 1; i < iterations; i++) hash = sha256(hash)
RECURSIVE rehash(_, _, _)
rehash(st, i, iterations) ==
    IF st.calls > 0 /\ lessThan(i, iterations)
    THEN rehash([hash |-> sha256(st.hash), calls |-> st.calls + 1], i + 1, iterations)
    ELSE st

\* `${salt}:${hash}:${JSON.stringify(metadata)}`, with what the call computed
encodeCredential(salt, digest, metadata) ==
    [ok |-> TRUE,
     value |-> salt \o << 58 >> \o digest.hash \o << 58 >> \o JSONstringify(metadata),
     salt |-> salt, hash |-> digest.hash, metadata |-> metadata, calls |-> digest.calls]
\* hashPassword once the salt provider has answered
hashWithSalt(password, made, algorithm, iterations, keyLength, now) ==
    IF ~made.ok THEN made
    ELSE encodeCredential(
            made.value,
            rehash([hash |-> sha256(password \o made.value), calls |-> 1], 1, iterations),
            JObj(<< KEY_algorithm, KEY_iterations, KEY_keyLength, KEY_timestamp >>,
                 << algorithm, iterations, keyLength, JNum(now) >>))
hashPassword(password, options, entropy, now) ==
    IF ~validatePassword(password).ok THEN validatePassword(password)
    ELSE hashWithSalt(password,
                      generateSecureSalt(orElse(options.saltLength, JNum(32)).v, entropy),
                      orElse(options.algorithm, JStr(STR_sha256)),
                      orElse(options.iterations, JNum(1)),
                      orElse(options.keyLength, JNum(64)),
                      now)

\* the iteration count of hashPasswordWithOptions and of needsRehashing when
\* the options give none
DEFAULT_ITERATIONS == 100000
\* the PasswordHashResult object, with what the call computed
hashResult(salt, digest, algorithm, iterations, keyLength, pepper, now) ==
    [ok |-> TRUE,
     value |-> [hash |-> digest.hash, salt |-> salt, algorithm |-> algorithm,
                iterations |-> iterations, keyLength |-> keyLength,
                metadata |-> [timestamp |-> JNum(now), encoding |-> JStr(STR_hex),
                              hasPepper |-> JBool(truthy(pepper))]],
     salt |-> salt, hash |-> digest.hash, calls |-> digest.calls]
\* pepper ? password + salt + pepper : password + salt
pepperedInput(password, salt, pepper) ==
    IF truthy(pepper) THEN password \o salt \o pepper.v ELSE password \o salt
\* hashPasswordWithOptions once the salt provider has answered
hashOptionsWithSalt(password, made, algorithm, iterations, keyLength, pepper, now) ==
    IF ~made.ok THEN made
    ELSE hashResult(
            made.value,
            rehash([hash |-> sha256(pepperedInput(password, made.value, pepper)),
                    calls |-> 1], 1, iterations),
            algorithm, iterations, keyLength, pepper, now)
hashPasswordWithOptions(password, options, entropy, now) ==
    IF ~validatePassword(password).ok THEN validatePassword(password)
    ELSE hashOptionsWithSalt(password,
                             generateSecureSalt(orElse(options.saltLength, JNum(32)).v, entropy),
                             orElse(options.algorithm, JStr(STR_sha256)),
                             orElse(options.iterations, JNum(DEFAULT_ITERATIONS)),
                             orElse(options.keyLength, JNum(64)),
                             options.pepper,
                             now)

\* timeSafeCompare(computedHash, hash), with the digest applications made
compareDigest(computed, hash) ==
    [ok |-> TRUE, value |-> timeSafeCompare(computed.hash, hash), calls |-> computed.calls]
\* Fault variant of verifyDecoded: the stored iteration count is ignored
verifyDecodedOnce(password, decoded) ==
    IF ~decoded.ok THEN decoded
    ELSE compareDigest([hash |-> sha256(password \o decoded.value.salt), calls |-> 1],
                       decoded.value.hash)
\* verifyPassword once the stored text is decoded
verifyDecoded(password, decoded) ==
    IF ~decoded.ok THEN decoded
    ELSE compareDigest(
            rehash([hash |-> sha256(password \o decoded.value.salt), calls |-> 1], 1,
                   orElse(getKey(decoded.value.metadata, KEY_iterations), JNum(1))),
            decoded.value.hash)
\* the try block of verifyPassword
verifyPasswordTry(password, storedHash) ==
    IF ~validatePassword(password).ok THEN validatePassword(password)
    ELSE verifyDecoded(password, validateStoredHashFormat(storedHash))
\* Fault variant of catchFalse: no catch, the error propagates
catchNothing(attempt) == attempt
\* catch { return false }
catchFalse(attempt) ==
    IF attempt.ok THEN attempt ELSE [ok |-> TRUE, value |-> FALSE, calls |-> 0]
verifyPassword(password, storedHash) == catchFalse(verifyPasswordTry(password, storedHash))

secureOutcome(compared, algorithm, iterations) ==
    [ok |-> TRUE,
     value |-> [isValid |-> compared.value, algorithm |-> algorithm,
                iterations |-> iterations],
     calls |-> compared.calls]
\* Fault variant of secureDecoded: the stored iteration count is ignored
secureDecodedOnce(password, decoded) ==
    IF ~decoded.ok THEN decoded
    ELSE secureOutcome(
            compareDigest([hash |-> sha256(password \o decoded.value.salt), calls |-> 1],
                          decoded.value.hash),
            orElse(getKey(decoded.value.metadata, KEY_algorithm), JStr(STR_sha256)),
            orElse(getKey(decoded.value.metadata, KEY_iterations), JNum(1)))
\* verifyPasswordSecure once the stored text is decoded
secureDecoded(password, decoded) ==
    IF ~decoded.ok THEN decoded
    ELSE secureOutcome(
            compareDigest(
                rehash([hash |-> sha256(password \o decoded.value.salt), calls |-> 1], 1,
                       orElse(getKey(decoded.value.metadata, KEY_iterations), JNum(1))),
                decoded.value.hash),
            orElse(getKey(decoded.value.metadata, KEY_algorithm), JStr(STR_sha256)),
            orElse(getKey(decoded.value.metadata, KEY_iterations), JNum(1)))
\* the try block of verifyPasswordSecure
verifyPasswordSecureTry(password, storedHash) ==
    IF ~validatePassword(password).ok THEN validatePassword(password)
    ELSE secureDecoded(password, validateStoredHashFormat(storedHash))
\* Fault variant of verifyPasswordSecure: the catch block rethrows
verifyPasswordSecureRethrow(attempt, startTime, endTime) ==
    IF attempt.ok
    THEN [ok |-> TRUE,
          value |-> [isValid |-> attempt.value.isValid,
                     algorithm |-> attempt.value.algorithm,
                     timeTaken |-> endTime - startTime,
                     metadata |-> [iterations |-> attempt.value.iterations,
                                   secureComparison |-> TRUE]],
          calls |-> attempt.calls]
    ELSE attempt
\* verifyPasswordSecure: what its promise resolves to (ok) or is rejected
\* with, from the outcome of the try block and the two readings of the clock
verifyPasswordSecure(attempt, startTime, endTime) ==
    IF attempt.ok
    THEN [ok |-> TRUE,
          value |-> [isValid |-> attempt.value.isValid,
                     algorithm |-> attempt.value.algorithm,
                     timeTaken |-> endTime - startTime,
                     metadata |-> [iterations |-> attempt.value.iterations,
                                   secureComparison |-> TRUE]],
          calls |-> attempt.calls]
    ELSE [ok |-> TRUE,
          value |-> [isValid |-> FALSE, algorithm |-> JStr(STR_sha256),
                     timeTaken |-> endTime - startTime,
                     metadata |-> [error |-> attempt.error]],
          calls |-> 0]

\* `${salt}:${hash}`
encodeSimple(salt, hash) ==
    [ok |-> TRUE, value |-> salt \o << 58 >> \o hash,
     salt |-> salt, hash |-> hash, metadata |-> Undefined, calls |-> 1]
simpleHashWithSalt(password, salt) == encodeSimple(salt, sha256(password \o salt))
simpleHashPassword(password, entropy) ==
    simpleHashWithSalt(password, generateSecureSalt(16, entropy).value)

\* a result of simpleVerifyPassword reached before any digest is made
notVerified == [ok |-> TRUE, value |-> FALSE, calls |-> 0]
simpleVerifyParts(password, parts) ==
    IF Len(parts) # 2 THEN notVerified
    ELSE IF parts[1] = << >> \/ parts[2] = << >> THEN notVerified
    ELSE compareDigest([hash |-> sha256(password \o parts[1]), calls |-> 1], parts[2])
simpleVerifyPassword(password, storedHash) ==
    simpleVerifyParts(password, split(storedHash, 58))

\* The clock counts days: a reading is Date.now() / 86 400 000, and the year
\* 365 * 24 * 60 * 60 * 1000 ms of needsRehashing is 365 of them.
YEAR == 365

\* x < y on JavaScript values, x a number
jsLess(x, y) == x.t = "num" /\ lessThan(x.v, y)
\* Date.now() - timestamp > YEAR; a comparison with NaN is false
olderThanYear(timestamp, now) ==
    IF timestamp.t = "num" THEN now - timestamp.v > YEAR
    ELSE IF timestamp.t = "bool" THEN now - 1 > YEAR
    ELSE FALSE
\* Fault variant of rehashNeeded: the age of the credential is not looked at
rehashNeededAgeless(metadata, currentIterations, currentAlgorithm, now) ==
    [ok |-> TRUE,
     value |-> \/ jsLess(orElse(getKey(metadata, KEY_iterations), JNum(1)), currentIterations)
               \/ orElse(getKey(metadata, KEY_algorithm), JStr(STR_sha256)) # currentAlgorithm
               \/ ~truthy(getKey(metadata, KEY_timestamp)),
     calls |-> 0]
\* the returned disjunction of needsRehashing
rehashNeeded(metadata, currentIterations, currentAlgorithm, now) ==
    [ok |-> TRUE,
     value |-> \/ jsLess(orElse(getKey(metadata, KEY_iterations), JNum(1)), currentIterations)
               \/ orElse(getKey(metadata, KEY_algorithm), JStr(STR_sha256)) # currentAlgorithm
               \/ ~truthy(getKey(metadata, KEY_timestamp))
               \/ olderThanYear(getKey(metadata, KEY_timestamp), now),
     calls |-> 0]
\* needsRehashing once the stored text is decoded
rehashDecoded(decoded, currentOptions, now) ==
    IF ~decoded.ok THEN decoded
    ELSE rehashNeeded(decoded.value.metadata,
                      orElse(currentOptions.iterations, JNum(DEFAULT_ITERATIONS)),
                      orElse(currentOptions.algorithm, JStr(STR_sha256)),
                      now)
\* catch { return true }
catchTrue(attempt) ==
    IF attempt.ok THEN attempt ELSE [ok |-> TRUE, value |-> TRUE, calls |-> 0]
needsRehashing(storedHash, currentOptions, now) ==
    catchTrue(rehashDecoded(validateStoredHashFormat(storedHash), currentOptions, now))

\* what the promise of upgradePasswordHash resolves to when hashPassword returns
resolved(hashed) == IF hashed.ok THEN [hashed EXCEPT !.value = JStr(@)] ELSE hashed
\* Fault variant of upgradeVerified: the new hash is made whatever isValid is
upgradeUnverified(verification, password, newOptions, entropy, now) ==
    resolved(hashPassword(password, newOptions, entropy, now))
\* upgradePasswordHash after the await of verifyPasswordSecure
upgradeVerified(verification, password, newOptions, entropy, now) ==
    IF ~verification.value.isValid
    THEN [ok |-> TRUE, value |-> JNull, calls |-> 0]
    ELSE resolved(hashPassword(password, newOptions, entropy, now))

(***************************************************************************)
(* The inputs of the calls.  Strings are sequences of UTF-16 code units.   *)
(***************************************************************************)
MaxIterations == 2      \* largest iterations option a caller asks for
MaxElapsed == 1         \* largest advance of the clock during one call
MaxMsgLen == 3          \* longest message over Alphabet given to sha256

\* "p", and two passwords that start with an unpaired high surrogate
Passwords == { << 112 >>, << 55296, 65 >>, << 55296, 1089 >> }
\* "", "p\0" and a password of 1025 symbols
InvalidPasswords == { << >>, << 112, 0 >>, [i \in 1..1025 |-> 112] }
AllPasswords == Passwords \cup InvalidPasswords
\* the passwords given to simpleHashPassword and simpleVerifyPassword, which
\* validate nothing: the digest of the 1025-symbol password is not computed
ShortPasswords == { p \in AllPasswords : Len(p) <= 1024 }

Options(algorithm, saltLength, iterations, keyLength) ==
    [algorithm |-> algorithm, saltLength |-> saltLength,
     iterations |-> iterations, keyLength |-> keyLength, pepper |-> Undefined]
WithPepper(options, pepper) == [options EXCEPT !.pepper = JStr(pepper)]
PEPPER_k == << 107 >>   \* "k"
NoOptions == Options(Undefined, Undefined, Undefined, Undefined)
HashOptionsChoices ==
    { NoOptions }
    \cup { Options(Undefined, JNum(8), JNum(k), Undefined) : k \in 0..MaxIterations }
    \cup { Options(Undefined, JNum(l), Undefined, Undefined) : l \in {0, 7, 64, 65} }
    \cup { Options(JStr(STR_sha512), JNum(8), Undefined, Undefined),
           Options(Undefined, JNum(8), Undefined, JNum(32)),
           WithPepper(Options(Undefined, JNum(8), Undefined, Undefined), PEPPER_k) }
\* hashPasswordWithOptions is always given an iteration count: its default
\* of 100000 digest applications is not executed
DetailedOptionsChoices ==
    { Options(Undefined, JNum(8), JNum(k), Undefined) : k \in 1..MaxIterations }
    \cup { WithPepper(Options(Undefined, JNum(8), JNum(k), Undefined), x) :
                k \in 1..MaxIterations, x \in { PEPPER_k, << >> } }
    \cup { Options(Undefined, JNum(7), JNum(1), Undefined),
           WithPepper(Options(Undefined, JNum(7), JNum(1), Undefined), PEPPER_k) }
    \cup { Options(Undefined, JNum(8), n, Undefined) : n \in { JNum(-3), JFraction(2, 5) } }
    \cup { Options(JStr(STR_sha512), JNum(8), JNum(1), Undefined) }
\* values of the iterations option: absent, 0, negative, not an integer,
\* positive
IterationsChoices ==
    { Undefined, JNum(0), JNum(-3), JFraction(2, 5), JFraction(0, 5) }
        \cup { JNum(k) : k \in 1..MaxIterations }
Entropies == { 7 }

SaltOfLength(l) == [i \in 1..l |-> 97 + (i % 26)]
SALT_withColon ==   \* salt:salt
    << 115, 97, 108, 116, 58, 115, 97, 108, 116 >>
LegacySalts == { SaltOfLength(7), SaltOfLength(8), SaltOfLength(128), SaltOfLength(129),
                 SALT_withColon }

TXT_notValid ==   \* not-a-valid-credential
    << 110, 111, 116, 45, 97, 45, 118, 97, 108, 105, 100, 45, 99, 114, 101, 100, 101, 110, 116, 105, 97, 108 >>
TXT_shortSalt ==   \* short:abcd
    << 115, 104, 111, 114, 116, 58, 97, 98, 99, 100 >>
TXT_badHash ==   \* saltsalt:xyz!
    << 115, 97, 108, 116, 115, 97, 108, 116, 58, 120, 121, 122, 33 >>
TXT_emptyHash ==   \* saltsalt:
    << 115, 97, 108, 116, 115, 97, 108, 116, 58 >>
TXT_emptySalt ==   \* :abcd
    << 58, 97, 98, 99, 100 >>
TXT_badMetadata ==   \* saltsalt:00ff:{bad
    << 115, 97, 108, 116, 115, 97, 108, 116, 58, 48, 48, 102, 102, 58, 123, 98, 97, 100 >>
TXT_twoIterations ==   \* saltsalt:00ff:{"iterations":2}
    << 115, 97, 108, 116, 115, 97, 108, 116, 58, 48, 48, 102, 102, 58, 123, 34, 105, 116, 101, 114, 97, 116, 105, 111, 110, 115, 34, 58, 50, 125 >>
TXT_upperHex ==   \* saltsalt:00FF
    << 115, 97, 108, 116, 115, 97, 108, 116, 58, 48, 48, 70, 70 >>
ArbitraryTexts == { TXT_notValid, TXT_shortSalt, TXT_badHash, TXT_emptyHash, TXT_emptySalt, TXT_badMetadata, TXT_twoIterations, TXT_upperHex }

\* credentials written under the default policy of 100000 iterations
POL_current ==   \* saltsalt:00ff:{"algorithm":"sha256","iterations":100000,"keyLength":64,"timestamp":20000}
    << 115, 97, 108, 116, 115, 97, 108, 116, 58, 48, 48, 102, 102, 58, 123, 34,
       97, 108, 103, 111, 114, 105, 116, 104, 109, 34, 58, 34, 115, 104, 97, 50,
       53, 54, 34, 44, 34, 105, 116, 101, 114, 97, 116, 105, 111, 110, 115, 34,
       58, 49, 48, 48, 48, 48, 48, 44, 34, 107, 101, 121, 76, 101, 110, 103,
       116, 104, 34, 58, 54, 52, 44, 34, 116, 105, 109, 101, 115, 116, 97, 109,
       112, 34, 58, 50, 48, 48, 48, 48, 125 >>
POL_noTimestamp ==   \* saltsalt:00ff:{"algorithm":"sha256","iterations":100000}
    << 115, 97, 108, 116, 115, 97, 108, 116, 58, 48, 48, 102, 102, 58, 123, 34,
       97, 108, 103, 111, 114, 105, 116, 104, 109, 34, 58, 34, 115, 104, 97, 50,
       53, 54, 34, 44, 34, 105, 116, 101, 114, 97, 116, 105, 111, 110, 115, 34,
       58, 49, 48, 48, 48, 48, 48, 125 >>
POL_sha512 ==   \* saltsalt:00ff:{"algorithm":"sha512","iterations":100000,"timestamp":20000}
    << 115, 97, 108, 116, 115, 97, 108, 116, 58, 48, 48, 102, 102, 58, 123, 34,
       97, 108, 103, 111, 114, 105, 116, 104, 109, 34, 58, 34, 115, 104, 97, 53,
       49, 50, 34, 44, 34, 105, 116, 101, 114, 97, 116, 105, 111, 110, 115, 34,
       58, 49, 48, 48, 48, 48, 48, 44, 34, 116, 105, 109, 101, 115, 116, 97,
       109, 112, 34, 58, 50, 48, 48, 48, 48, 125 >>
POL_old ==   \* saltsalt:00ff:{"algorithm":"sha256","iterations":100000,"timestamp":19000}
    << 115, 97, 108, 116, 115, 97, 108, 116, 58, 48, 48, 102, 102, 58, 123, 34,
       97, 108, 103, 111, 114, 105, 116, 104, 109, 34, 58, 34, 115, 104, 97, 50,
       53, 54, 34, 44, 34, 105, 116, 101, 114, 97, 116, 105, 111, 110, 115, 34,
       58, 49, 48, 48, 48, 48, 48, 44, 34, 116, 105, 109, 101, 115, 116, 97,
       109, 112, 34, 58, 49, 57, 48, 48, 48, 125 >>
PolicyTexts == { POL_current, POL_noTimestamp, POL_sha512, POL_old }
\* the currentOptions a caller gives to needsRehashing
PolicyChoices ==
    { NoOptions, Options(JStr(STR_sha512), Undefined, Undefined, Undefined),
      Options(JStr(STR_sha256), Undefined, JNum(1), Undefined) }
    \cup { Options(Undefined, Undefined, JNum(k), Undefined) : k \in 1..MaxIterations }

\* the newOptions a caller gives to upgradePasswordHash
UpgradeOptionsChoices ==
    { NoOptions, Options(Undefined, JNum(8), JNum(MaxIterations), Undefined),
      Options(Undefined, JNum(7), Undefined, Undefined),
      Options(JStr(STR_sha512), JNum(8), JNum(1), Undefined),
      Options(Undefined, JNum(65), JNum(MaxIterations), Undefined) }

\* operands of the comparator: "", a, ab, ab\0, abc, xbc, abx, a 2-byte
\* character, two unpaired surrogates, and two hex strings
CompareStrings ==
    { << >>, << 97 >>, << 97, 98 >>, << 97, 98, 0 >>, << 97, 98, 99 >>,
      << 120, 98, 99 >>, << 97, 98, 120 >>, << 233 >>, << 55296 >>, << 55297 >>,
      << 48, 48, 102, 102 >>, << 48, 48, 70, 70 >> }

Alphabet == { 97, 98, 99 }
MSG_helloWorld ==   \* hello world
    << 104, 101, 108, 108, 111, 32, 119, 111, 114, 108, 100 >>
Messages ==
    UNION { [1..l -> Alphabet] : l \in 0..MaxMsgLen }
    \cup { MSG_helloWorld, << 8364 >>, << 55296, 65 >>, << 55296, 1089 >>,
           << 55357, 56832 >>, [i \in 1..55 |-> 97], [i \in 1..56 |-> 97],
           [i \in 1..64 |-> 97], << 97, 98, 99, 100 >>, << 233 >>,
           << 8364, 97 >> }

(***************************************************************************)
(* The state: one credential's life.  A caller creates a credential (or    *)
(* holds a text from elsewhere), stores its text and later calls the       *)
(* decoder or a verification entry point on it.                            *)
(***************************************************************************)
VARIABLES
    pc,         \* where the caller is: "idle", "stored", "aged", "failed", "done", ...
    origin,     \* which operation made the stored text
    secret,     \* the password the credential was made from
    made,       \* what the creating call computed
    stored,     \* the credential text the caller keeps
    call,       \* the last call: its name and arguments
    ret,        \* the last call's outcome
    first,      \* the outcome of the same call made before
    clock,      \* Date.now(), in days
    tables      \* the module-level arrays K and H0 of sha256.ts
vars == << pc, origin, secret, made, stored, call, ret, first, clock, tables >>

NoCall == [op |-> "none"]
NoResult == [ok |-> TRUE, value |-> << >>, calls |-> 0]

Init ==
    /\ pc = "idle"
    /\ origin = "none"
    /\ secret = << >>
    /\ made = NoResult
    /\ stored = << >>
    /\ call = NoCall
    /\ ret = NoResult
    /\ first = NoResult
    /\ clock = 20000
    /\ tables = [K |-> K, H0 |-> H0]

HashPassword ==
    /\ pc = "idle"
    /\ \E p \in AllPasswords, o \in HashOptionsChoices, e \in Entropies :
         /\ call' = [op |-> "hashPassword", password |-> p, options |-> o]
         /\ ret' = hashPassword(p, o, e, clock)
         /\ secret' = p
    /\ made' = ret'
    /\ origin' = "hashPassword"
    /\ stored' = IF ret'.ok THEN ret'.value ELSE stored
    /\ pc' = IF ret'.ok THEN "stored" ELSE "failed"
    /\ UNCHANGED << tables, first, clock >>

SimpleHashPassword ==
    /\ pc = "idle"
    /\ \E p \in ShortPasswords, e \in Entropies :
         /\ call' = [op |-> "simpleHashPassword", password |-> p]
         /\ ret' = simpleHashPassword(p, e)
         /\ secret' = p
    /\ made' = ret'
    /\ stored' = ret'.value
    /\ origin' = "simpleHashPassword"
    /\ pc' = "stored"
    /\ UNCHANGED << tables, first, clock >>

\* the caller holds a credential s:sha256(p + s) written by an older version
LegacyCredential ==
    /\ pc = "idle"
    /\ \E p \in Passwords, s \in LegacySalts :
         /\ made' = simpleHashWithSalt(p, s)
         /\ secret' = p
    /\ stored' = made'.value
    /\ origin' = "legacy"
    /\ pc' = "stored"
    /\ UNCHANGED << tables, call, ret, first, clock >>

\* the caller holds a text that no operation of the library produced
ArbitraryCredential ==
    /\ pc = "idle"
    /\ \E text \in ArbitraryTexts : stored' = text
    /\ origin' = "arbitrary"
    /\ pc' = "stored"
    /\ UNCHANGED << tables, secret, made, call, ret, first, clock >>

ValidateStoredHashFormat ==
    /\ pc = "stored"
    /\ call' = [op |-> "validateStoredHashFormat"]
    /\ ret' = validateStoredHashFormat(stored)
    /\ pc' = "done"
    /\ UNCHANGED << tables, origin, secret, made, stored, first, clock >>

VerifyPassword ==
    /\ pc = "stored"
    /\ \E q \in AllPasswords :
         /\ call' = [op |-> "verifyPassword", password |-> q]
         /\ ret' = verifyPassword(q, stored)
    /\ pc' = "done"
    /\ UNCHANGED << tables, origin, secret, made, stored, first, clock >>

VerifyPasswordSecure ==
    /\ pc = "stored"
    /\ \E q \in AllPasswords :
         LET attempt == verifyPasswordSecureTry(q, stored) IN
         \E dt \in 0..MaxElapsed :
            /\ call' = [op |-> "verifyPasswordSecure", password |-> q]
            /\ clock' = clock + dt
            /\ ret' = verifyPasswordSecure(attempt, clock, clock')
    /\ pc' = "done"
    /\ UNCHANGED << tables, origin, secret, made, stored, first >>

Next ==
    \/ HashPassword
    \/ SimpleHashPassword
    \/ LegacyCredential
    \/ ArbitraryCredential
    \/ ValidateStoredHashFormat
    \/ VerifyPassword
    \/ VerifyPasswordSecure

Spec == Init /\ [][Next]_vars

(***************************************************************************)
(* The digest on its own: a caller hashes a message, and may make the same *)
(* call again.                                                             *)
(***************************************************************************)
Sha256 ==
    /\ pc = "idle"
    /\ \E m \in Messages :
         /\ call' = [op |-> "sha256", message |-> m]
         /\ ret' = [ok |-> TRUE, value |-> sha256(m), calls |-> 1]
    /\ pc' = "done"
    /\ UNCHANGED << tables, origin, secret, made, stored, first, clock >>

Sha256Bytes ==
    /\ pc = "idle"
    /\ \E m \in Messages :
         /\ call' = [op |-> "sha256Bytes", message |-> m]
         /\ ret' = [ok |-> TRUE, value |-> sha256Bytes(m), calls |-> 1]
    /\ pc' = "done"
    /\ UNCHANGED << tables, origin, secret, made, stored, first, clock >>

Sha256Again ==
    /\ pc = "done"
    /\ call.op = "sha256"
    /\ first' = ret
    /\ ret' = [ok |-> TRUE, value |-> sha256(call.message), calls |-> 1]
    /\ pc' = "repeated"
    /\ UNCHANGED << tables, origin, secret, made, stored, call, clock >>

NextDigest ==
    \/ Sha256
    \/ Sha256Bytes
    \/ Sha256Again

SpecDigest == Init /\ [][NextDigest]_vars

(***************************************************************************)
(* The rehash policy: a caller holds a credential, possibly for more than  *)
(* a year, and asks whether it needs rehashing.                            *)
(***************************************************************************)
PolicyCredential ==
    /\ pc = "idle"
    /\ \E text \in PolicyTexts : stored' = text
    /\ origin' = "policy"
    /\ pc' = "stored"
    /\ UNCHANGED << tables, secret, made, call, ret, first, clock >>

TimePasses ==
    /\ pc = "stored"
    /\ \E d \in { YEAR, YEAR + 1 } : clock' = clock + d
    /\ pc' = "aged"
    /\ UNCHANGED << tables, origin, secret, made, stored, call, ret, first >>

NeedsRehashing ==
    /\ pc \in { "stored", "aged" }
    /\ \E o \in PolicyChoices :
         /\ call' = [op |-> "needsRehashing", options |-> o]
         /\ ret' = needsRehashing(stored, o, clock)
    /\ pc' = "done"
    /\ UNCHANGED << tables, origin, secret, made, stored, first, clock >>

NextPolicy ==
    \/ HashPassword
    \/ ArbitraryCredential
    \/ PolicyCredential
    \/ TimePasses
    \/ NeedsRehashing

SpecPolicy == Init /\ [][NextPolicy]_vars

(***************************************************************************)
(* Upgrading a credential.  upgradePasswordHash awaits verifyPasswordSecure *)
(* and continues in a later step.                                          *)
(***************************************************************************)
UpgradeVerify ==
    /\ pc = "stored"
    /\ \E q \in AllPasswords, o \in UpgradeOptionsChoices :
         LET attempt == verifyPasswordSecureTry(q, stored) IN
         \E dt \in 0..MaxElapsed :
            /\ call' = [op |-> "upgradePasswordHash", password |-> q, options |-> o]
            /\ clock' = clock + dt
            /\ ret' = verifyPasswordSecure(attempt, clock, clock')
    /\ pc' = "upgrading"
    /\ UNCHANGED << tables, origin, secret, made, stored, first >>

UpgradeFinish ==
    /\ pc = "upgrading"
    /\ \E e \in Entropies :
         ret' = upgradeVerified(ret, call.password, call.options, e, clock)
    /\ first' = ret
    /\ pc' = "upgraded"
    /\ UNCHANGED << tables, origin, secret, made, stored, call, clock >>

\* the caller keeps the new credential and verifies the password against it
UpgradedVerifyPassword ==
    /\ pc = "upgraded"
    /\ ret.ok
    /\ ret.value # JNull
    /\ stored' = ret.value.v
    /\ origin' = "upgradePasswordHash"
    /\ secret' = call.password
    /\ call' = [op |-> "verifyPassword", password |-> call.password,
                options |-> call.options]
    /\ ret' = verifyPassword(call.password, stored')
    /\ first' = ret
    /\ pc' = "replaced"
    /\ UNCHANGED << tables, made, clock >>

\* and asks at once, with the options of the upgrade, whether it needs rehashing
UpgradedNeedsRehashing ==
    /\ pc = "replaced"
    /\ call' = [op |-> "needsRehashing", password |-> call.password,
                options |-> call.options]
    /\ ret' = needsRehashing(stored, call.options, clock)
    /\ first' = ret
    /\ pc' = "cycled"
    /\ UNCHANGED << tables, origin, secret, made, stored, clock >>

NextUpgrade ==
    \/ SimpleHashPassword
    \/ LegacyCredential
    \/ ArbitraryCredential
    \/ UpgradeVerify
    \/ UpgradeFinish
    \/ UpgradedVerifyPassword
    \/ UpgradedNeedsRehashing

SpecUpgrade == Init /\ [][NextUpgrade]_vars

(***************************************************************************)
(* The comparator on its own.                                              *)
(***************************************************************************)
TimeSafeCompare ==
    /\ pc = "idle"
    /\ \E s1 \in CompareStrings, s2 \in CompareStrings :
         /\ call' = [op |-> "timeSafeCompare", a |-> s1, b |-> s2]
         /\ ret' = comparison(s1, s2)
    /\ pc' = "done"
    /\ UNCHANGED << tables, origin, secret, made, stored, first, clock >>

ConstantTimeCompare ==
    /\ pc = "idle"
    /\ \E s1 \in CompareStrings, s2 \in CompareStrings :
         /\ call' = [op |-> "constantTimeCompare", a |-> s1, b |-> s2]
         /\ ret' = constantTimeCompare(s1, s2)
    /\ pc' = "done"
    /\ UNCHANGED << tables, origin, secret, made, stored, first, clock >>

NextCompare ==
    \/ TimeSafeCompare
    \/ ConstantTimeCompare

SpecCompare == Init /\ [][NextCompare]_vars

(***************************************************************************)
(* The hashing path: both hashing functions, the verification of a record  *)
(* of hashPasswordWithOptions by a caller who assembles the text           *)
(* salt:hash:{"iterations":n} and appends the pepper to the password, and  *)
(* verifyPasswordSecure on a credential of hashPassword.                   *)
(***************************************************************************)
HashPasswordWithOptions ==
    /\ pc = "idle"
    /\ \E p \in AllPasswords, o \in DetailedOptionsChoices, e \in Entropies :
         /\ call' = [op |-> "hashPasswordWithOptions", password |-> p, options |-> o]
         /\ ret' = hashPasswordWithOptions(p, o, e, clock)
         /\ secret' = p
    /\ made' = ret'
    /\ origin' = "hashPasswordWithOptions"
    /\ pc' = IF ret'.ok THEN "made" ELSE "failed"
    /\ UNCHANGED << tables, stored, first, clock >>

\* hashPassword with an iterations option that is any Number
HashPasswordIterations ==
    /\ pc = "idle"
    /\ \E p \in Passwords, n \in IterationsChoices, e \in Entropies :
         /\ call' = [op |-> "hashPassword", password |-> p,
                     options |-> Options(Undefined, JNum(8), n, Undefined)]
         /\ ret' = hashPassword(p, call'.options, e, clock)
         /\ secret' = p
    /\ made' = ret'
    /\ origin' = "hashPassword"
    /\ stored' = IF ret'.ok THEN ret'.value ELSE stored
    /\ pc' = IF ret'.ok THEN "stored" ELSE "failed"
    /\ UNCHANGED << tables, first, clock >>

recordText(record) ==
    record.salt \o << 58 >> \o record.hash \o << 58 >>
        \o JSONstringify(JObj(<< KEY_iterations >>, << record.iterations >>))
combined(password, pepper) ==
    IF pepper.t = "str" THEN password \o pepper.v ELSE password

VerifyCombined ==
    /\ pc = "made"
    /\ stored' = recordText(made.value)
    /\ call' = [op |-> "verifyPassword",
                password |-> combined(secret, call.options.pepper)]
    /\ ret' = verifyPassword(call'.password, stored')
    /\ first' = ret
    /\ pc' = "verified"
    /\ UNCHANGED << tables, origin, secret, made, clock >>

NextHash ==
    \/ HashPassword
    \/ HashPasswordIterations
    \/ HashPasswordWithOptions
    \/ VerifyCombined
    \/ VerifyPasswordSecure

SpecHash == Init /\ [][NextHash]_vars

(***************************************************************************)
(* The simple path: simpleHashPassword and simpleVerifyPassword, which     *)
(* validate nothing, over the same stored texts.                           *)
(***************************************************************************)
SimpleVerifyPassword ==
    /\ pc = "stored"
    /\ \E q \in ShortPasswords :
         /\ call' = [op |-> "simpleVerifyPassword", password |-> q]
         /\ ret' = simpleVerifyPassword(q, stored)
    /\ pc' = "done"
    /\ UNCHANGED << tables, origin, secret, made, stored, first, clock >>

NextSimple ==
    \/ SimpleHashPassword
    \/ LegacyCredential
    \/ ArbitraryCredential
    \/ SimpleVerifyPassword

SpecSimple == Init /\ [][NextSimple]_vars

(***************************************************************************)
(* The digest engine step by step: sha256 pads the message, and for every  *)
(* 16-word chunk fills the schedule word by word, loads the registers from *)
(* the hash state, runs the rounds one by one and adds the registers to    *)
(* the hash state; after the last chunk it formats the hash state.  `made` *)
(* holds the locals of the call: msgWords, the chunk index i (1-based),    *)
(* w, the registers r = <<a, .., h0>> with their values before the last    *)
(* round, the round counter t, and h with its value before the last add.   *)
(***************************************************************************)
Locals(msgWords, i, w, before, r, t, old, h) ==
    [msgWords |-> msgWords, i |-> i, w |-> w, before |-> before, r |-> r,
     t |-> t, old |-> old, h |-> h]

\* lines 69-77: stringToWords, the padding, h = [...H0]
Pad ==
    /\ pc = "idle"
    /\ \E m \in Messages :
         /\ call' = [op |-> "sha256", message |-> m]
         /\ made' = Locals(paddedWords(m), 1, << >>, << >>, << >>, 0, tables.H0, tables.H0)
    /\ pc' = "padded"
    /\ UNCHANGED << tables, origin, secret, stored, ret, first, clock >>

\* line 80-81: i < msgWords.length, w = msgWords.slice(i, i + 16)
Slice ==
    /\ pc \in {"padded", "added"}
    /\ made.i <= Len(made.msgWords)
    /\ made' = [made EXCEPT !.w = SubSeq(made.msgWords, made.i, made.i + 15)]
    /\ pc' = "schedule"
    /\ UNCHANGED << tables, origin, secret, stored, call, ret, first, clock >>

\* lines 82-91: one pass of the schedule loop
ScheduleWord ==
    /\ pc = "schedule"
    /\ Len(made.w) < 64
    /\ made' = [made EXCEPT !.w = nextWord(made.w)]
    /\ UNCHANGED << tables, pc, origin, secret, stored, call, ret, first, clock >>

\* lines 93-100: a..h0 = h[0..7]
LoadRegisters ==
    /\ pc = "schedule"
    /\ Len(made.w) = 64
    /\ made' = [made EXCEPT !.before = made.h, !.r = made.h, !.t = 0]
    /\ pc' = "rounds"
    /\ UNCHANGED << tables, origin, secret, stored, call, ret, first, clock >>

\* lines 102-121: one pass of the compression loop
Round ==
    /\ pc = "rounds"
    /\ made.t < 64
    /\ made' = [made EXCEPT !.before = made.r, !.r = round(made.r, made.w, made.t),
                            !.t = made.t + 1]
    /\ UNCHANGED << tables, pc, origin, secret, stored, call, ret, first, clock >>

\* lines 123-130 and i += 16
AddState ==
    /\ pc = "rounds"
    /\ made.t = 64
    /\ made' = [made EXCEPT !.old = made.h, !.h = addState(made.h, made.r),
                            !.i = made.i + 16]
    /\ pc' = "added"
    /\ UNCHANGED << tables, origin, secret, stored, call, ret, first, clock >>

\* line 133: the hash state as 8 x 8 hexadecimal digits
Format ==
    /\ pc = "added"
    /\ made.i > Len(made.msgWords)
    /\ ret' = [ok |-> TRUE, calls |-> 1,
               value |-> flatten([k \in 1..8 |-> padStart(toString16(made.h[k]), 8, 48)])]
    /\ pc' = "done"
    /\ UNCHANGED << tables, origin, secret, made, stored, call, first, clock >>

NextEngine ==
    \/ Pad
    \/ Slice
    \/ ScheduleWord
    \/ LoadRegisters
    \/ Round
    \/ AddState
    \/ Format

SpecEngine == Init /\ [][NextEngine]_vars

(***************************************************************************)
(* A credential whose third part was not written by the library: the       *)
(* caller holds s:sha256(p + s) followed by ':' and a metadata text chosen *)
(* by someone else (or a credential of hashPassword, or any text), and     *)
(* decodes it or verifies a password against it, with one entry point and  *)
(* then with the other.                                                    *)
(***************************************************************************)
\* metadata texts that JSON.parse rejects
MD_openBrace ==   \* {
    << 123 >>
MD_word ==   \* metadata
    << 109, 101, 116, 97, 100, 97, 116, 97 >>
MD_truncated ==   \* {"iterations":2
    << 123, 34, 105, 116, 101, 114, 97, 116, 105, 111, 110, 115, 34, 58, 50 >>
MD_singleQuotes ==   \* {'iterations':2}
    << 123, 39, 105, 116, 101, 114, 97, 116, 105, 111, 110, 115, 39, 58, 50, 125 >>
MD_trailing ==   \* {"iterations":2}:x
    << 123, 34, 105, 116, 101, 114, 97, 116, 105, 111, 110, 115, 34, 58, 50, 125, 58, 120 >>
BrokenMetadata == { << >>, MD_openBrace, MD_word, MD_truncated, MD_singleQuotes, MD_trailing }
\* metadata texts that JSON.parse reads: an iterations member that is not a
\* positive integer, or an algorithm the library does not compute
MD_negative ==   \* {"iterations":-3}
    << 123, 34, 105, 116, 101, 114, 97, 116, 105, 111, 110, 115, 34, 58, 45, 51, 125 >>
MD_fraction ==   \* {"iterations":2.5}
    << 123, 34, 105, 116, 101, 114, 97, 116, 105, 111, 110, 115, 34, 58, 50, 46, 53, 125 >>
MD_zero ==   \* {"iterations":0}
    << 123, 34, 105, 116, 101, 114, 97, 116, 105, 111, 110, 115, 34, 58, 48, 125 >>
MD_two ==   \* {"iterations":2}
    << 123, 34, 105, 116, 101, 114, 97, 116, 105, 111, 110, 115, 34, 58, 50, 125 >>
MD_word3 ==   \* {"iterations":"3"}
    << 123, 34, 105, 116, 101, 114, 97, 116, 105, 111, 110, 115, 34, 58, 34, 51, 34, 125 >>
MD_wordAbc ==   \* {"iterations":"abc"}
    << 123, 34, 105, 116, 101, 114, 97, 116, 105, 111, 110, 115, 34, 58, 34, 97, 98, 99, 34, 125 >>
MD_true ==   \* {"iterations":true}
    << 123, 34, 105, 116, 101, 114, 97, 116, 105, 111, 110, 115, 34, 58, 116, 114, 117, 101, 125 >>
MD_object ==   \* {"iterations":{}}
    << 123, 34, 105, 116, 101, 114, 97, 116, 105, 111, 110, 115, 34, 58, 123, 125, 125 >>
MD_many ==   \* {"iterations":20}
    << 123, 34, 105, 116, 101, 114, 97, 116, 105, 111, 110, 115, 34, 58, 50, 48, 125 >>
MD_infinity ==   \* {"iterations":1e999}
    << 123, 34, 105, 116, 101, 114, 97, 116, 105, 111, 110, 115, 34, 58, 49, 101, 57, 57, 57, 125 >>
MD_sha512 ==   \* {"algorithm":"sha512"}
    << 123, 34, 97, 108, 103, 111, 114, 105, 116, 104, 109, 34, 58, 34, 115, 104, 97, 53, 49, 50,
    34, 125 >>
MD_md5 ==   \* {"algorithm":"md5","iterations":2}
    << 123, 34, 97, 108, 103, 111, 114, 105, 116, 104, 109, 34, 58, 34, 109, 100, 53, 34, 44, 34,
    105, 116, 101, 114, 97, 116, 105, 111, 110, 115, 34, 58, 50, 125 >>
IterationsMetadata ==
    { MD_negative, MD_fraction, MD_zero, MD_two, MD_word3, MD_wordAbc, MD_true, MD_object }
AlgorithmMetadata == { MD_sha512, MD_md5 }
ForgedMetadata == BrokenMetadata \cup IterationsMetadata \cup AlgorithmMetadata

ForgedCredential ==
    /\ pc = "idle"
    /\ \E p \in Passwords, text \in ForgedMetadata :
         /\ made' = simpleHashWithSalt(p, SaltOfLength(8))
         /\ secret' = p
         /\ stored' = made'.value \o << 58 >> \o text
    /\ origin' = "forged"
    /\ pc' = "stored"
    /\ UNCHANGED << tables, call, ret, first, clock >>

\* verifyPasswordSecure with the arguments of the verifyPassword call before
ThenVerifyPasswordSecure ==
    /\ pc = "done"
    /\ call.op = "verifyPassword"
    /\ LET attempt == verifyPasswordSecureTry(call.password, stored) IN
       \E dt \in 0..MaxElapsed :
            /\ call' = [op |-> "verifyPasswordSecure", password |-> call.password]
            /\ clock' = clock + dt
            /\ ret' = verifyPasswordSecure(attempt, clock, clock')
    /\ first' = ret
    /\ pc' = "both"
    /\ UNCHANGED << tables, origin, secret, made, stored >>

NextForged ==
    \/ ForgedCredential
    \/ HashPassword
    \/ ArbitraryCredential
    \/ ValidateStoredHashFormat
    \/ VerifyPassword
    \/ VerifyPasswordSecure
    \/ ThenVerifyPasswordSecure

SpecForged == Init /\ [][NextForged]_vars

(***************************************************************************)
(* The iteration loop of verifyPassword and verifyPasswordSecure pass by   *)
(* pass, on a credential whose metadata anyone may have written.  `first`  *)
(* holds the locals of the call: computedHash, the loop counter i, the     *)
(* iterations and algorithm read from the metadata, the hash to compare    *)
(* with, and the number of digest applications made so far.  The model     *)
(* follows a loop for MaxPasses passes.                                    *)
(***************************************************************************)
MaxPasses == 24
HostileMetadata == IterationsMetadata \cup { MD_many, MD_infinity, << >> }

HostileCredential ==
    /\ pc = "idle"
    /\ \E p \in Passwords, text \in HostileMetadata :
         /\ made' = simpleHashWithSalt(p, SaltOfLength(8))
         /\ secret' = p
         /\ stored' = made'.value \o << 58 >> \o text
    /\ origin' = "forged"
    /\ pc' = "stored"
    /\ UNCHANGED << tables, call, ret, first, clock >>

LoopLocals(password, decoded, now) ==
    [hash |-> sha256(password \o decoded.salt), calls |-> 1, i |-> 1,
     iterations |-> orElse(getKey(decoded.metadata, KEY_iterations), JNum(1)),
     algorithm |-> orElse(getKey(decoded.metadata, KEY_algorithm), JStr(STR_sha256)),
     expected |-> decoded.hash, startTime |-> now]
\* what the catch block of the entry point returns
caught(op, failure, now) ==
    IF op = "verifyPassword" THEN catchFalse(failure)
    ELSE verifyPasswordSecure(failure, now, now)

\* password.ts:118-122 and 145-155: the validations and the first digest
VerifyStart ==
    /\ pc = "stored"
    /\ \E op \in {"verifyPassword", "verifyPasswordSecure"}, q \in ShortPasswords :
         LET checked == validatePassword(q)
             decoded == validateStoredHashFormat(stored)
         IN /\ call' = [op |-> op, password |-> q]
            /\ IF checked.ok /\ decoded.ok
               THEN /\ first' = LoopLocals(q, decoded.value, clock)
                    /\ ret' = ret
                    /\ pc' = "loop"
               ELSE /\ first' = first
                    /\ ret' = caught(op, IF checked.ok THEN decoded ELSE checked, clock)
                    /\ pc' = "done"
    /\ UNCHANGED << tables, origin, secret, made, stored, clock >>

\* one pass of for (let i = 1; i < iterations; i++) computedHash = sha256(computedHash)
LoopPass ==
    /\ pc = "loop"
    /\ lessThan(first.i, first.iterations)
    /\ first.i < MaxPasses
    /\ first' = [first EXCEPT !.hash = sha256(first.hash), !.calls = first.calls + 1,
                              !.i = first.i + 1]
    /\ UNCHANGED << tables, pc, origin, secret, made, stored, call, ret, clock >>

\* the loop condition is false: timeSafeCompare and the return
LoopExit ==
    /\ pc = "loop"
    /\ ~lessThan(first.i, first.iterations)
    /\ \E dt \in 0..MaxElapsed :
         /\ clock' = clock + dt
         /\ ret' = IF call.op = "verifyPassword"
                   THEN compareDigest(first, first.expected)
                   ELSE verifyPasswordSecure(
                            secureOutcome(compareDigest(first, first.expected),
                                          first.algorithm, first.iterations),
                            first.startTime, clock')
    /\ pc' = "done"
    /\ UNCHANGED << tables, origin, secret, made, stored, call, first >>

NextLoop ==
    \/ HostileCredential
    \/ VerifyStart
    \/ LoopPass
    \/ LoopExit

SpecLoop == Init /\ [][NextLoop]_vars

(***************************************************************************)
(* Concurrent callers.  JavaScript runs one task at a time and switches    *)
(* tasks only where a task awaits: a synchronous call is one step, a call  *)
(* of verifyPasswordSecure is its body and then its resolution, and a call *)
(* of upgradePasswordHash is what runs before its await and what runs      *)
(* after it.  The tasks share the credential text, the clock, the salt     *)
(* provider and the module; each keeps its own arguments and locals.       *)
(***************************************************************************)
Tasks == { 1, 2 }
PASSWORD_other == << 55296, 65 >>
\* the password the credential was made from, and another one
TaskPasswords == { << 112 >>, PASSWORD_other }
\* the options the tasks give: to hashPassword and upgradePasswordHash as the
\* options of the new hash, to needsRehashing as the policy
TaskOptionsChoices ==
    { Options(Undefined, JNum(8), JNum(MaxIterations), Undefined),
      Options(Undefined, JNum(8), Undefined, Undefined) }

\* the locals of one task: where it is, the clock readings and the salt
\* entropy its call took, and the value of the promise it awaits
TaskLocals(at, startTime, endTime, now, entropy, verification) ==
    [at |-> at, startTime |-> startTime, endTime |-> endTime, now |-> now,
     entropy |-> entropy, verification |-> verification]
Ready == TaskLocals("ready", 0, 0, 0, 0, NoResult)

\* a fault variant of awaited: one module-level slot holds the value of the
\* promise settled first, and every continuation reads that slot
awaitedShared(locals, t) ==
    LET settled == { u \in Tasks : locals[u].verification # NoResult }
        u == CHOOSE v \in settled : \A x \in settled : v <= x
    IN  locals[u].verification
\* what a continuation resumes with: the value of the promise that the task
\* itself made (password.ts line 256: const verification = await ...)
awaited(locals, t) == locals[t].verification

\* the caller has a credential and starts the tasks
Spawn ==
    /\ pc = "idle"
    /\ \E e \in Entropies :
         made' = hashPassword(<< 112 >>, Options(Undefined, JNum(8), JNum(1), Undefined),
                              e, clock)
    /\ secret' = << 112 >>
    /\ stored' = made'.value
    /\ origin' = "hashPassword"
    /\ call' = [t \in Tasks |-> NoCall]
    /\ ret' = [t \in Tasks |-> NoResult]
    /\ first' = [t \in Tasks |-> Ready]
    /\ pc' = "running"
    /\ UNCHANGED << clock, tables >>

TaskHashPassword(t) ==
    /\ pc = "running"
    /\ first[t].at = "ready"
    /\ \E p \in TaskPasswords, o \in TaskOptionsChoices, e \in Entropies :
         /\ call' = [call EXCEPT ![t] = [op |-> "hashPassword", password |-> p,
                                         options |-> o]]
         /\ ret' = [ret EXCEPT ![t] = hashPassword(p, o, e, clock)]
         /\ first' = [first EXCEPT ![t] = TaskLocals("done", 0, 0, clock, e, NoResult)]
    /\ UNCHANGED << pc, origin, secret, made, stored, clock, tables >>

TaskVerifyPassword(t) ==
    /\ pc = "running"
    /\ first[t].at = "ready"
    /\ \E p \in TaskPasswords :
         /\ call' = [call EXCEPT ![t] = [op |-> "verifyPassword", password |-> p,
                                         storedHash |-> stored]]
         /\ ret' = [ret EXCEPT ![t] = verifyPassword(p, stored)]
    /\ first' = [first EXCEPT ![t] = TaskLocals("done", 0, 0, 0, 0, NoResult)]
    /\ UNCHANGED << pc, origin, secret, made, stored, clock, tables >>

TaskNeedsRehashing(t) ==
    /\ pc = "running"
    /\ first[t].at = "ready"
    /\ \E o \in TaskOptionsChoices :
         /\ call' = [call EXCEPT ![t] = [op |-> "needsRehashing", storedHash |-> stored,
                                         options |-> o]]
         /\ ret' = [ret EXCEPT ![t] = needsRehashing(stored, o, clock)]
    /\ first' = [first EXCEPT ![t] = TaskLocals("done", 0, 0, clock, 0, NoResult)]
    /\ UNCHANGED << pc, origin, secret, made, stored, clock, tables >>

\* the body of verifyPasswordSecure, which runs to its return in one piece
\* and settles the promise
TaskVerifyPasswordSecure(t) ==
    /\ pc = "running"
    /\ first[t].at = "ready"
    /\ \E p \in TaskPasswords, dt \in 0..MaxElapsed :
         /\ call' = [call EXCEPT ![t] = [op |-> "verifyPasswordSecure", password |-> p,
                                         storedHash |-> stored]]
         /\ clock' = clock + dt
         /\ first' = [first EXCEPT ![t] =
                TaskLocals("settled", clock, clock', 0, 0,
                           verifyPasswordSecure(verifyPasswordSecureTry(p, stored),
                                                clock, clock'))]
    /\ UNCHANGED << pc, origin, secret, made, stored, ret, tables >>

\* the caller of verifyPasswordSecure resumes with the promise's value
TaskResolution(t) ==
    /\ pc = "running"
    /\ first[t].at = "settled"
    /\ ret' = [ret EXCEPT ![t] = awaited(first, t)]
    /\ first' = [first EXCEPT ![t].at = "done"]
    /\ UNCHANGED << pc, origin, secret, made, stored, call, clock, tables >>

\* upgradePasswordHash up to its await (password.ts line 256)
TaskUpgradeVerify(t) ==
    /\ pc = "running"
    /\ first[t].at = "ready"
    /\ \E p \in TaskPasswords, o \in TaskOptionsChoices, dt \in 0..MaxElapsed :
         /\ call' = [call EXCEPT ![t] = [op |-> "upgradePasswordHash", password |-> p,
                                         storedHash |-> stored, options |-> o]]
         /\ clock' = clock + dt
         /\ first' = [first EXCEPT ![t] =
                TaskLocals("awaiting", clock, clock', 0, 0,
                           verifyPasswordSecure(verifyPasswordSecureTry(p, stored),
                                                clock, clock'))]
    /\ UNCHANGED << pc, origin, secret, made, stored, ret, tables >>

\* upgradePasswordHash after its await (password.ts lines 258-262)
TaskUpgradeFinish(t) ==
    /\ pc = "running"
    /\ first[t].at = "awaiting"
    /\ \E e \in Entropies :
         /\ ret' = [ret EXCEPT ![t] =
                upgradeVerified(awaited(first, t), call[t].password, call[t].options,
                                e, clock)]
         /\ first' = [first EXCEPT ![t].at = "done", ![t].now = clock,
                                   ![t].entropy = e]
    /\ UNCHANGED << pc, origin, secret, made, stored, call, clock, tables >>

NextConcurrent ==
    \/ Spawn
    \/ \E t \in Tasks : TaskHashPassword(t)
    \/ \E t \in Tasks : TaskVerifyPassword(t)
    \/ \E t \in Tasks : TaskNeedsRehashing(t)
    \/ \E t \in Tasks : TaskVerifyPasswordSecure(t)
    \/ \E t \in Tasks : TaskResolution(t)
    \/ \E t \in Tasks : TaskUpgradeVerify(t)
    \/ \E t \in Tasks : TaskUpgradeFinish(t)

SpecConcurrent == Init /\ [][NextConcurrent]_vars

(***************************************************************************)
(* Properties                                                              *)
(***************************************************************************)
VerifiedOwn ==
    /\ pc = "done"
    /\ call.op = "verifyPassword"
    /\ call.password = secret
Range(f) == { f[i] : i \in DOMAIN f }
Decoded == validateStoredHashFormat(stored)

\* C1: hash/verify agreement.  verifyPassword(p, hashPassword(p, o)) returns
\* true for every valid password p and every options object o for which
\* hashPassword returned a credential.
C1_HashVerifyAgreement ==
    (VerifiedOwn /\ origin = "hashPassword") => (ret.ok /\ ret.value = TRUE)
\* the case a 65-byte salt is asked for: hashPassword returns a credential
C1_LongSaltCredential ==
    /\ VerifiedOwn
    /\ origin = "hashPassword"
    /\ Len(made.salt) = 130
    /\ ret.value = FALSE

\* C2: wrong passwords are rejected.  verifyPassword(p2, hashPassword(p, o))
\* returns false for every valid password p2 that is a different string
\* from p.
C2_WrongPasswordRejected ==
    ( /\ pc = "done"
      /\ call.op = "verifyPassword"
      /\ origin = "hashPassword"
      /\ call.password \in Passwords
      /\ call.password # secret )
    => (ret.ok /\ ret.value = FALSE)
C2_SurrogateCollision ==
    /\ pc = "done"
    /\ call.op = "verifyPassword"
    /\ origin = "hashPassword"
    /\ secret = << 55296, 65 >>
    /\ call.password = << 55296, 1089 >>
    /\ ret.value = TRUE

STD_empty ==   \* e3b0c44298fc1c149afbf4c8996fb92427ae41e4649b934ca495991b7852b855
    << 101, 51, 98, 48, 99, 52, 52, 50, 57, 56, 102, 99, 49, 99, 49, 52,
       57, 97, 102, 98, 102, 52, 99, 56, 57, 57, 54, 102, 98, 57, 50, 52,
       50, 55, 97, 101, 52, 49, 101, 52, 54, 52, 57, 98, 57, 51, 52, 99,
       97, 52, 57, 53, 57, 57, 49, 98, 55, 56, 53, 50, 98, 56, 53, 53 >>
STD_abc ==   \* ba7816bf8f01cfea414140de5dae2223b00361a396177a9cb410ff61f20015ad
    << 98, 97, 55, 56, 49, 54, 98, 102, 56, 102, 48, 49, 99, 102, 101, 97,
       52, 49, 52, 49, 52, 48, 100, 101, 53, 100, 97, 101, 50, 50, 50, 51,
       98, 48, 48, 51, 54, 49, 97, 51, 57, 54, 49, 55, 55, 97, 57, 99,
       98, 52, 49, 48, 102, 102, 54, 49, 102, 50, 48, 48, 49, 53, 97, 100 >>
STD_helloWorld ==   \* b94d27b9934d3e08a52e52d7da7dabfac484efe37a5380ee9088f7ace2efcde9
    << 98, 57, 52, 100, 50, 55, 98, 57, 57, 51, 52, 100, 51, 101, 48, 56,
       97, 53, 50, 101, 53, 50, 100, 55, 100, 97, 55, 100, 97, 98, 102, 97,
       99, 52, 56, 52, 101, 102, 101, 51, 55, 97, 53, 51, 56, 48, 101, 101,
       57, 48, 56, 56, 102, 55, 97, 99, 101, 50, 101, 102, 99, 100, 101, 57 >>
\* C5: known vectors.  sha256("") , sha256("abc") and sha256("hello world")
\* equal the published SHA-256 digests of those messages.
C5_KnownVectors ==
    (pc = "done" /\ call.op = "sha256") =>
        /\ call.message = << >> => ret.value = STD_empty
        /\ call.message = << 97, 98, 99 >> => ret.value = STD_abc
        /\ call.message = MSG_helloWorld => ret.value = STD_helloWorld
C5_AbcDiffers ==
    /\ pc = "done"
    /\ call.op = "sha256"
    /\ call.message = << 97, 98, 99 >>
    /\ ret.value # STD_abc

\* C6: the digest is deterministic and fixed-width.  Two calls sha256(m)
\* return the same value, the value is exactly 64 lowercase hexadecimal
\* characters, and sha256Bytes(m) is exactly 32 bytes.
isLowerHex(c) == (c >= 48 /\ c <= 57) \/ (c >= 97 /\ c <= 102)
C7_CodecRoundTrip ==
    (pc = "done" /\ call.op = "validateStoredHashFormat" /\ origin = "hashPassword") =>
        /\ ret.ok
        /\ ret.value = [salt |-> made.salt, hash |-> made.hash, metadata |-> made.metadata]
C7_LongSaltRejected ==
    /\ pc = "done"
    /\ call.op = "validateStoredHashFormat"
    /\ origin = "hashPassword"
    /\ Len(made.salt) = 130
    /\ ~ret.ok

\* C8: encoded credential shape.  Splitting the string returned by
\* hashPassword on ':' yields exactly 3 fields.
C8_ThreeFields ==
    (origin = "hashPassword" /\ pc = "stored") => Len(split(stored, 58)) = 3
C8_SevenFields ==
    /\ origin = "hashPassword"
    /\ pc = "stored"
    /\ Len(split(stored, 58)) = 7

\* C9: legacy compatibility.  For every valid password p and every salt s of
\* 8 to 128 symbols, verifyPassword(p, s + ':' + sha256(p + s)) returns true
\* after exactly one digest application; so does
\* verifyPassword(p, simpleHashPassword(p)).
C9_LegacyAnySalt ==
    ( /\ VerifiedOwn
      /\ origin \in {"legacy", "simpleHashPassword"}
      /\ validatePassword(secret).ok
      /\ Len(made.salt) \in 8..128 )
    => (ret.ok /\ ret.value = TRUE /\ ret.calls = 1)
\* C9, amended: the same for every salt of 8 to 128 symbols that contains no
\* ':' (a salt with a ':' is not decoded as the salt of a 2-field credential).
C9_LegacySaltWithoutColon ==
    ( /\ VerifiedOwn
      /\ origin \in {"legacy", "simpleHashPassword"}
      /\ validatePassword(secret).ok
      /\ Len(made.salt) \in 8..128
      /\ 58 \notin Range(made.salt) )
    => (ret.ok /\ ret.value = TRUE /\ ret.calls = 1)
C9_Witness ==
    /\ VerifiedOwn
    /\ origin = "legacy"
    /\ Len(made.salt) = 128
    /\ ret.value = TRUE
    /\ ret.calls = 1

\* C10: verification uses the stored iteration count.  For a credential whose
\* metadata records iterations = n, verifyPassword applies sha256 n times in
\* all (once to password + salt, n - 1 times to its own output), which is
\* the number of applications hashPassword made when it recorded n; when the
\* metadata is absent it applies sha256 once.
RecordedIterations == getKey(Decoded.value.metadata, KEY_iterations)
C10_StoredIterationCount ==
    ( /\ pc = "done"
      /\ call.op = "verifyPassword"
      /\ validatePassword(call.password).ok
      /\ Decoded.ok )
    => /\ (RecordedIterations.t = "num" /\ RecordedIterations.v >= 1) =>
              ret.calls = RecordedIterations.v
       /\ (Decoded.value.metadata = Undefined) => ret.calls = 1
       /\ (origin = "hashPassword" /\ RecordedIterations.t = "num") =>
              ret.calls = made.calls
C10_Witness ==
    /\ VerifiedOwn
    /\ origin = "hashPassword"
    /\ Decoded.ok
    /\ RecordedIterations = JNum(MaxIterations)
    /\ ret.calls = MaxIterations
    /\ ret.value = TRUE

\* C11: needsRehashing returns true if and only if the text cannot be
\* decoded, or the stored iterations (1 when absent) are fewer than the
\* policy's (100000 when not given), or the stored algorithm (sha256 when
\* absent) differs from the policy's (sha256 when not given), or the metadata
\* or its timestamp is missing, or the timestamp is more than 365 days before
\* the clock reading.
C11_NeedsRehashingExactly ==
    (pc = "done" /\ call.op = "needsRehashing") =>
        /\ ret.ok
        /\ ret.value <=>
             \/ ~Decoded.ok
             \/ LET metadata == Decoded.value.metadata
                    policyIterations == IF call.options.iterations.t = "undefined"
                                        THEN 100000 ELSE call.options.iterations.v
                    policyAlgorithm == IF call.options.algorithm.t = "undefined"
                                       THEN STR_sha256 ELSE call.options.algorithm.v
                    storedIterations == IF hasKey(metadata, KEY_iterations)
                                        THEN getKey(metadata, KEY_iterations).v ELSE 1
                    storedAlgorithm == IF hasKey(metadata, KEY_algorithm)
                                       THEN getKey(metadata, KEY_algorithm).v ELSE STR_sha256
                IN \/ storedIterations < policyIterations
                   \/ storedAlgorithm # policyAlgorithm
                   \/ metadata.t = "undefined"
                   \/ ~hasKey(metadata, KEY_timestamp)
                   \/ clock - getKey(metadata, KEY_timestamp).v > 365
\* a freshly hashed credential that matches the policy needs no rehashing
C11_Witness ==
    /\ pc = "done"
    /\ call.op = "needsRehashing"
    /\ origin = "hashPassword"
    /\ call.options = Options(Undefined, Undefined, JNum(MaxIterations), Undefined)
    /\ ret.value = FALSE

\* C12: upgradePasswordHash resolves to null whenever the password does not
\* verify against the old credential, and then makes no hash and draws no
\* salt; when the password verifies it resolves to the credential
\* hashPassword(p, newOptions) returns, made after the verification ended
\* with isValid = true.
C12_UpgradeOnlyVerified ==
    (pc = "upgraded") =>
        /\ ~first.value.isValid =>
              /\ ret.ok
              /\ ret.value = JNull
              /\ ret.calls = 0
              /\ "salt" \notin DOMAIN ret
        /\ (first.value.isValid /\ validateKeyLength(orElse(call.options.saltLength, JNum(32)).v).ok) =>
              /\ ret.ok
              /\ ret.value.t = "str"
              /\ \E e \in Entropies :
                    ret.value.v = hashPassword(call.password, call.options, e, clock).value
C12_Witness ==
    /\ pc = "upgraded"
    /\ origin = "legacy"
    /\ call.password # secret
    /\ call.password \in Passwords
    /\ ~first.value.isValid
    /\ ret.value = JNull

\* C13: comparator operation count.  timeSafeCompare runs its byte loop
\* exactly max(len(a), len(b)) times (lengths in bytes), wherever the
\* operands first differ.
C13_LoopRunsMaxLength ==
    (pc = "done" /\ call.op = "timeSafeCompare") =>
        ret.steps = Max(Len(bufferFromUtf8(call.a)), Len(bufferFromUtf8(call.b)))
\* operands that differ at the first byte
C13_Witness ==
    /\ pc = "done"
    /\ call.op = "timeSafeCompare"
    /\ call.a = << 120, 98, 99 >>
    /\ call.b = << 97, 98, 99 >>
    /\ ret.steps = 3
    /\ ret.value = FALSE

C15_PasswordCheckedFirst ==
    (pc \in {"stored", "made", "failed"}
     /\ call.op \in {"hashPassword", "hashPasswordWithOptions"}) =>
        LET p == call.password
            saltError == "Key length must be at least 8 bytes"
        IN /\ Len(p) = 0 => ~ret.ok /\ ret.error = "Password cannot be empty"
           /\ Len(p) > 1024 =>
                ~ret.ok /\ ret.error = "Password is too long (max 1024 characters)"
           /\ (Len(p) \in 1..1024 /\ \E i \in 1..Len(p) : p[i] = 0) =>
                ~ret.ok /\ ret.error = "Password cannot contain null bytes"
           /\ (Len(p) \in 1..1024 /\ \A i \in 1..Len(p) : p[i] # 0) =>
                ret.ok \/ ret.error = saltError
           /\ ~ret.ok => /\ DOMAIN ret = {"ok", "error"}
                         /\ stored = << >>
                         /\ pc = "failed"
\* a password with a NUL and a salt length the provider refuses: the error
\* is the password's
C15_Witness ==
    /\ pc = "failed"
    /\ call.op = "hashPasswordWithOptions"
    /\ call.password = << 112, 0 >>
    /\ call.options.saltLength = JNum(7)
    /\ ret.error = "Password cannot contain null bytes"


\* C16: decode validation.  validateStoredHashFormat fails exactly when the
\* text has fewer than 2 fields between colons, or its first or second field
\* is empty, or the first field has fewer than 8 or more than 128 symbols,
\* or the second field has a symbol outside 0-9, a-f, A-F.  Otherwise it
\* returns the first field as salt, the second as hash, and as metadata the
\* JSON value of the remaining fields joined with ':' (none when there are
\* no more fields or they are not JSON).
C16_DecodeValidation ==
    (pc = "done" /\ call.op = "validateStoredHashFormat") =>
        LET parts == split(stored, 58)
            hexDigits == (48..57) \cup (65..70) \cup (97..102)
            fails == IF Len(parts) < 2 THEN TRUE
                     ELSE \/ parts[1] = << >>
                          \/ parts[2] = << >>
                          \/ Len(parts[1]) < 8
                          \/ Len(parts[1]) > 128
                          \/ \E i \in 1..Len(parts[2]) : parts[2][i] \notin hexDigits
            rest == JSONparse(joinWith(SubSeq(parts, 3, Len(parts)), 58))
        IN /\ ~ret.ok <=> fails
           /\ ret.ok =>
                /\ ret.value.salt = parts[1]
                /\ ret.value.hash = parts[2]
                /\ ret.value.metadata =
                       IF Len(parts) > 2 /\ rest.ok THEN rest.value ELSE Undefined
\* a digest in upper-case digits is accepted
C16_Witness ==
    /\ pc = "done"
    /\ call.op = "validateStoredHashFormat"
    /\ stored = TXT_upperHex
    /\ ret.ok
    /\ ret.value.hash = << 48, 48, 70, 70 >>
    /\ ret.value.metadata = Undefined


\* C17: pepper on the hashing path.  When options.pepper is supplied,
\* hashPassword and hashPasswordWithOptions alike compute the first digest
\* over password ++ salt ++ pepper, and over password ++ salt when it is
\* not; no field of the returned credential holds the pepper.
C17_PepperInFirstDigest ==
    (pc \in {"stored", "made"}
     /\ call.op \in {"hashPassword", "hashPasswordWithOptions"}) =>
        LET pepper == call.options.pepper
            input == IF pepper.t = "str"
                     THEN call.password \o ret.salt \o pepper.v
                     ELSE call.password \o ret.salt
            iterations == orElse(call.options.iterations, JNum(1))
        IN /\ ret.hash = rehash([hash |-> sha256(input), calls |-> 1], 1, iterations).hash
           /\ pepper.t = "str" /\ pepper.v # << >> =>
                /\ \A i \in 1..Len(ret.salt) : ret.salt[i] # pepper.v[1]
                /\ \A i \in 1..Len(ret.hash) : ret.hash[i] # pepper.v[1]
                /\ call.op = "hashPassword" =>
                     \A i \in 1..Len(ret.metadata.vals) : ret.metadata.vals[i] # pepper
                /\ call.op = "hashPasswordWithOptions" =>
                     /\ ret.value.algorithm # pepper
                     /\ ret.value.metadata.encoding # pepper
\* hashPassword given a pepper: the digest is that of password ++ salt
C17_PepperIgnored ==
    /\ pc = "stored"
    /\ call.op = "hashPassword"
    /\ call.options.pepper = JStr(PEPPER_k)
    /\ ret.hash = sha256(call.password \o ret.salt)
    /\ ret.hash # sha256(call.password \o ret.salt \o PEPPER_k)


\* C18: verification of a peppered credential.  For the record returned by
\* hashPasswordWithOptions(p, {pepper: k, iterations: n}), verifyPassword
\* with the password p ++ k and the text salt:hash:{"iterations":n}
\* returns true.
C18_PepperedRecordVerifies ==
    (pc = "verified" /\ first.value.metadata.hasPepper = JBool(TRUE)) =>
        (ret.ok /\ ret.value = TRUE)
\* the digest was made over p ++ salt ++ k; verification makes it over
\* p ++ k ++ salt
C18_CombinedPasswordRejected ==
    /\ pc = "verified"
    /\ first.value.metadata.hasPepper = JBool(TRUE)
    /\ call.password = secret \o PEPPER_k
    /\ stored = recordText(first.value)
    /\ first.value.iterations = JNum(1)
    /\ first.value.hash = sha256(secret \o first.value.salt \o PEPPER_k)
    /\ ret.ok
    /\ ret.value = FALSE


\* C19: simple path.  simpleVerifyPassword(q, stored) never raises and is
\* true exactly when stored has exactly two fields between colons, both
\* non-empty, the second equal to sha256(q + first); so it is true for
\* simpleVerifyPassword(p, simpleHashPassword(p)), false for every other
\* password against that credential, and false for a text without a colon.
C19_SimplePath ==
    (pc = "done" /\ call.op = "simpleVerifyPassword") =>
        LET parts == split(stored, 58)
        IN /\ ret.ok
           /\ ret.value = ( /\ Len(parts) = 2
                            /\ parts[1] # << >>
                            /\ parts[2] # << >>
                            /\ parts[2] = sha256(call.password \o parts[1]) )
           /\ origin = "simpleHashPassword" => (ret.value <=> call.password = secret)
           /\ Len(parts) = 1 => ret.value = FALSE
\* another password is accepted for the credential of "\uD800A"
C19_OtherPasswordAccepted ==
    /\ pc = "done"
    /\ call.op = "simpleVerifyPassword"
    /\ origin = "simpleHashPassword"
    /\ secret = << 55296, 65 >>
    /\ call.password = << 55296, 1089 >>
    /\ ret.value = TRUE


\* C20: salt length contract.  generateSecureSalt(n) returns exactly n
\* symbols, so the salt of the credential returned by
\* hashPassword(p, {saltLength: n}) has exactly n symbols (32 when no
\* saltLength is given).
C20_SaltLengthAsAsked ==
    (pc = "stored" /\ call.op = "hashPassword") =>
        Len(ret.salt) = orElse(call.options.saltLength, JNum(32)).v
\* 8 symbols asked for, 16 returned
C20_SaltTwiceAsLong ==
    /\ pc = "stored"
    /\ call.op = "hashPassword"
    /\ call.options.saltLength = JNum(8)
    /\ Len(ret.salt) = 16
    /\ ret.salt = generateSecureSalt(8, 7).value
    /\ split(stored, 58)[1] = ret.salt

\* The step-by-step engine returns what the operator sha256 computes
EngineAgrees == (pc = "done" /\ call.op = "sha256") => ret.value = sha256(call.message)


\* The padding of FIPS 180-4 for a byte sequence: the byte 0x80, zero bytes
\* up to 56 modulo 64, the bit length in 8 bytes (lengths below 2^16 bits),
\* and the bytes taken four at a time as big-endian words.
standardPaddedBytes(bytes) ==
    bytes \o << 128 >> \o [k \in 1..((55 - Len(bytes)) % 64) |-> 0]
          \o << 0, 0, 0, 0, 0, 0, (8 * Len(bytes)) \div 256, (8 * Len(bytes)) % 256 >>
bigEndianWords(bytes) ==
    [k \in 1..(Len(bytes) \div 4) |->
        N(256 * bytes[4 * k - 3] + bytes[4 * k - 2], 256 * bytes[4 * k - 1] + bytes[4 * k])]

\* C21: padding layout.  For every message the padded input of sha256 is a
\* whole number of 16-word blocks and is word for word the standard padding
\* of the message's bytes: 0x80 right after the last message byte, zero
\* bytes up to 448 bits modulo 512, then the 64-bit length.
C21_StandardPadding ==
    (pc = "padded") =>
        /\ Len(made.msgWords) % 16 = 0
        /\ made.msgWords = bigEndianWords(standardPaddedBytes(stringToBytes(call.message)))
\* after "abc" the code has the words 0x00616263, 0x80000000 where the
\* standard padding has the one word 0x61626380
C21_MarkerInOwnWord ==
    /\ pc = "padded"
    /\ call.message = << 97, 98, 99 >>
    /\ made.msgWords[1] = N(97, 25187)
    /\ made.msgWords[2] = N(32768, 0)
    /\ bigEndianWords(standardPaddedBytes(<< 97, 98, 99 >>))[1] = N(24930, 25472)
    /\ made.msgWords[16] = N(0, 24)


\* C22: length field.  The 64-bit length that sha256 appends (the last two
\* words of the padded input) is 8 times the number of UTF-8 bytes of the
\* message, also where the byte count is not the count of code units.
C22_LengthInBytes ==
    (pc = "padded") =>
        /\ made.msgWords[Len(made.msgWords) - 1] = N(0, 0)
        /\ made.msgWords[Len(made.msgWords)] = FromInt(8 * Len(stringToBytes(call.message)))
\* U+20AC is three bytes and one code unit: the length appended is 8
C22_LengthInCodeUnits ==
    /\ pc = "padded"
    /\ call.message = << 8364 >>
    /\ Len(stringToBytes(call.message)) = 3
    /\ made.msgWords[1] = N(226, 33452)
    /\ made.msgWords[Len(made.msgWords)] = N(0, 8)


\* A Number is an unsigned 32-bit integer; two Numbers differ by a multiple
\* of 2^32
isUint32(x) == x.hi \in 0..(W16 - 1) /\ x.lo \in 0..(W16 - 1)
congruent(x, y) == x.lo = y.lo /\ (x.hi - y.hi) % W16 = 0
isReduced(x, sum) == isUint32(x) /\ congruent(x, sum)
\* The terms of the schedule word at sequence index k, and of the round that
\* took the registers b to their next values: signed 32-bit values
sigma0(w, k) == JsXor[JsXor[rightRotate[w[k - 15], 7], rightRotate[w[k - 15], 18]], rightShift[w[k - 15], 3]]
sigma1(w, k) == JsXor[JsXor[rightRotate[w[k - 2], 17], rightRotate[w[k - 2], 19]], rightShift[w[k - 2], 10]]
bigSigma1(b) == JsXor[JsXor[rightRotate[b[5], 6], rightRotate[b[5], 11]], rightRotate[b[5], 25]]
bigSigma0(b) == JsXor[JsXor[rightRotate[b[1], 2], rightRotate[b[1], 13]], rightRotate[b[1], 22]]
choose(b) == JsXor[JsAnd[b[5], b[6]], JsAnd[JsNot[b[5]], b[7]]]
majority(b) == JsXor[JsXor[JsAnd[b[1], b[2]], JsAnd[b[1], b[3]]], JsAnd[b[2], b[3]]]
sumTemp1(b, w, t) == Plus[Plus[Plus[Plus[b[8], bigSigma1(b)], choose(b)], K[t]], w[t]]
sumTemp2(b) == Plus[bigSigma0(b), majority(b)]

\* C23: 32-bit wraparound.  Every schedule word w[t] for 16 <= t < 64, every
\* register after each round and every hash-state word after each block is
\* an integer in [0, 2^32) and is its sum modulo 2^32, while the terms S0,
\* S1, ch, maj, s0, s1 of the sums are signed 32-bit values.
C23_Wraparound ==
    /\ (pc = "schedule") =>
          \A k \in 1..Len(made.w) :
              /\ isUint32(made.w[k])
              /\ k > 16 => isReduced(made.w[k],
                     Plus[Plus[Plus[made.w[k - 16], sigma0(made.w, k)], made.w[k - 7]],
                          sigma1(made.w, k)])
    /\ (pc = "rounds" /\ made.t > 0) =>
          /\ \A k \in 1..8 : isUint32(made.r[k])
          /\ isReduced(made.r[1],
                 Plus[sumTemp1(made.before, made.w, made.t), sumTemp2(made.before)])
          /\ isReduced(made.r[5],
                 Plus[made.before[4], sumTemp1(made.before, made.w, made.t)])
          /\ \A k \in {2, 3, 4, 6, 7, 8} : made.r[k] = made.before[k - 1]
    /\ (pc = "added") =>
          \A k \in 1..8 : isReduced(made.h[k], Plus[made.old[k], made.r[k]])
\* a round in which S1, ch, S0 and maj are all negative and the sum for a is
\* 2^32 or more
C23_Witness ==
    /\ pc = "rounds"
    /\ made.t > 0
    /\ bigSigma1(made.before).hi < 0
    /\ choose(made.before).hi < 0
    /\ bigSigma0(made.before).hi < 0
    /\ majority(made.before).hi < 0
    /\ Plus[sumTemp1(made.before, made.w, made.t), sumTemp2(made.before)].hi >= W16
    /\ isUint32(made.r[1])
    /\ isUint32(made.r[5])


\* the metadata text of a forged credential, and the result of
\* verifyPasswordSecure without its timeTaken
forgedText == SubSeq(stored, Len(made.value) + 2, Len(stored))
timeless(result) ==
    [isValid |-> result.value.isValid, algorithm |-> result.value.algorithm,
     metadata |-> result.value.metadata]

\* C24: metadata tolerance.  For a credential text of 3 or more fields whose
\* metadata part is not valid JSON, decoding succeeds with metadata absent,
\* and verifyPassword and verifyPasswordSecure return what they return for
\* the 2-field text salt:digest: one digest application, algorithm sha256.
C24_MetadataTolerance ==
    (origin = "forged" /\ forgedText \in BrokenMetadata /\ pc \in {"done", "both"}) =>
        /\ call.op = "validateStoredHashFormat" =>
              /\ ret.ok
              /\ ret.value = [salt |-> made.salt, hash |-> made.hash, metadata |-> Undefined]
        /\ call.op = "verifyPassword" =>
              /\ ret = verifyPassword(call.password, made.value)
              /\ validatePassword(call.password).ok =>
                    /\ ret.calls = 1
                    /\ ret.value = (sha256(call.password \o made.salt) = made.hash)
        /\ call.op = "verifyPasswordSecure" =>
              /\ ret.ok
              /\ timeless(ret) = timeless(verifyPasswordSecure(
                                    verifyPasswordSecureTry(call.password, made.value), 0, 0))
              /\ validatePassword(call.password).ok =>
                    /\ ret.calls = 1
                    /\ ret.value.algorithm = JStr(STR_sha256)
                    /\ ret.value.metadata.iterations = JNum(1)
                    /\ ret.value.isValid = (sha256(call.password \o made.salt) = made.hash)
\* the password of a credential whose metadata is the cut-off text
\* {"iterations":2 verifies with one digest application
C24_Witness ==
    /\ origin = "forged"
    /\ forgedText = MD_truncated
    /\ pc = "both"
    /\ call.password = secret
    /\ first.value = TRUE
    /\ first.calls = 1
    /\ ret.value.isValid = TRUE
    /\ ret.calls = 1


\* C25: recorded iterations.  Every credential of hashPassword and every
\* record of hashPasswordWithOptions carries an integer iterations >= 1 that
\* is the number of digest applications made to produce its digest, whatever
\* the iterations option of a call that returns: absent, 0, negative, not an
\* integer, positive.
recorded ==
    IF origin = "hashPassword" THEN getKey(made.metadata, KEY_iterations)
    ELSE made.value.iterations
C25_RecordedIterations ==
    ( /\ origin \in {"hashPassword", "hashPasswordWithOptions"}
      /\ pc \in {"stored", "made"} )
    => /\ recorded.t = "num"
       /\ recorded.v >= 1
       /\ recorded.v = made.calls
\* iterations: -3 is recorded as -3 after one digest application, and 2.5 as
\* 2.5 after three
C25_NegativeRecorded ==
    /\ origin = "hashPassword"
    /\ pc = "stored"
    /\ call.options.iterations = JNum(-3)
    /\ recorded = JNum(-3)
    /\ made.calls = 1


\* C26: closed algorithm dispatch.  An algorithm other than the one the
\* implementation computes is never processed with the default digest:
\* hashPassword and hashPasswordWithOptions called with such an algorithm
\* raise an error, and verifyPasswordSecure on a credential whose metadata
\* names such an algorithm reports isValid = false with an error.
C26_ClosedDispatch ==
    /\ ( /\ call.op \in {"hashPassword", "hashPasswordWithOptions"}
         /\ pc \in {"stored", "made", "failed"}
         /\ orElse(call.options.algorithm, JStr(STR_sha256)) # JStr(STR_sha256) )
       => ~ret.ok
    /\ ( /\ call.op = "verifyPasswordSecure"
         /\ pc = "done"
         /\ Decoded.ok
         /\ orElse(getKey(Decoded.value.metadata, KEY_algorithm), JStr(STR_sha256))
                # JStr(STR_sha256) )
       => /\ ret.value.isValid = FALSE
          /\ "error" \in DOMAIN ret.value.metadata
\* hashPassword with algorithm 'sha512' returns a credential whose digest is
\* sha256(password + salt), and verifyPasswordSecure accepts the password
\* against it and reports the algorithm 'sha512'
C26_Sha512IsSha256 ==
    /\ pc = "done"
    /\ call.op = "verifyPasswordSecure"
    /\ call.password = secret
    /\ origin = "hashPassword"
    /\ getKey(made.metadata, KEY_algorithm) = JStr(STR_sha512)
    /\ made.hash = sha256(secret \o made.salt)
    /\ ret.value.isValid = TRUE
    /\ ret.value.algorithm = JStr(STR_sha512)

\* The loop taken pass by pass returns what the entry points return
LoopAgrees ==
    (pc = "done" /\ call.op = "verifyPassword") => ret = verifyPassword(call.password, stored)


\* max(1, iterations) as a bound on a count: whether count <= max(1, value)
\* for the Number that value is or converts to (1 for a value that is none)
atMostStored(count, value) ==
    IF value.t = "num" THEN count <= Max(1, value.v)
    ELSE IF value.t = "fraction" THEN count <= Max(1, value.whole)
    ELSE IF value.t = "infinity" THEN ~value.negative \/ count <= 1
    ELSE IF value.t = "str" /\ value.v # << >> /\ \A k \in 1..Len(value.v) : isDigit(value.v[k])
         THEN count <= Max(1, natOfDecimal(value.v))
    ELSE count <= 1

\* C27: bounded completion.  verifyPassword and verifyPasswordSecure
\* terminate for every credential text, whatever JSON value its metadata
\* gives for iterations: the loop makes at most max(1, stored iterations)
\* digest applications, and there is a value of the counter at which the
\* loop condition is false, so that the call returns.
C27_BoundedCompletion ==
    (pc \in {"loop", "done"} /\ call.op \in {"verifyPassword", "verifyPasswordSecure"}
        /\ first.calls > 0) =>
        /\ atMostStored(first.calls, first.iterations)
        /\ \E n \in first.i..(MaxPasses + 1) : ~lessThan(n, first.iterations)
\* with "iterations":1e999 the loop is still running after MaxPasses digest
\* applications, and its condition i < Infinity holds for every counter value
C27_EndlessLoop ==
    /\ pc = "loop"
    /\ forgedText = MD_infinity
    /\ first.iterations = JInfinity(FALSE)
    /\ first.i = MaxPasses
    /\ first.calls = MaxPasses
    /\ \A n \in 1..(8 * MaxPasses) : lessThan(n, first.iterations)


\* C29: the two verification entry points agree.  For every password and
\* every stored text, isValid in the result of verifyPasswordSecure is the
\* boolean verifyPassword returns for the same arguments, whatever algorithm
\* and iterations the metadata names.
C29_EntryPointsAgree ==
    (pc = "both") =>
        /\ first.ok
        /\ ret.ok
        /\ first.value \in BOOLEAN
        /\ ret.value.isValid = first.value
        /\ ret.calls = first.calls
\* both accept the password of a credential of hashPassword with two
\* iterations, after two digest applications each
C29_Witness ==
    /\ pc = "both"
    /\ call.password = secret
    /\ origin = "hashPassword"
    /\ getKey(made.metadata, KEY_iterations) = JNum(2)
    /\ first.value = TRUE
    /\ ret.value.isValid = TRUE
    /\ ret.calls = 2


\* what the call of a task returns when nothing else runs, given the clock
\* readings and the salt entropy that the call took
alone(c, l) ==
    CASE c.op = "hashPassword" -> hashPassword(c.password, c.options, l.entropy, l.now)
      [] c.op = "verifyPassword" -> verifyPassword(c.password, c.storedHash)
      [] c.op = "needsRehashing" -> needsRehashing(c.storedHash, c.options, l.now)
      [] c.op = "verifyPasswordSecure" ->
            verifyPasswordSecure(verifyPasswordSecureTry(c.password, c.storedHash),
                                 l.startTime, l.endTime)
      [] c.op = "upgradePasswordHash" ->
            upgradeVerified(
                verifyPasswordSecure(verifyPasswordSecureTry(c.password, c.storedHash),
                                     l.startTime, l.endTime),
                c.password, c.options, l.entropy, l.now)

C30_UpgradeConverges ==
    /\ pc = "replaced" => ret.value = TRUE
    /\ pc = "cycled" => ret.value = FALSE

\* The options of the upgrade leave iterations unset: the new credential
\* verifies and records 1 iteration, and needsRehashing asks for a rehash
C30_RehashAfterUpgrade ==
    /\ pc = "cycled"
    /\ call.options = NoOptions
    /\ first.value = TRUE
    /\ getKey(validateStoredHashFormat(stored).value.metadata, KEY_iterations) = JNum(1)
    /\ ret.value = TRUE

====
